---- MODULE Spec2Model ----
(***************************************************************************)
(* Lights in the Void: hex board, rule engine moves (Game.ts) and the      *)
(* ActionEncoder (server/ActionEncoder.ts) that maps moves to action ids.  *)
(*                                                                         *)
(* Representation notes                                                    *)
(*   - a hex key `${letter}${i}` is the pair <<letter, i>>, "HOME" is      *)
(*     <<"HOME", 0>>; Chars gives its UTF-16 code units for sorting.       *)
(*   - a coordinate key `${q},${r},${s}` is the triple <<q, r, s>>.        *)
(*   - a token key such as "red-normal" is the sequence of its '-'-parts,  *)
(*     <<"red", "normal">>; "planet" is <<"planet">>.                      *)
(*   - JS null / undefined is NULL.                                        *)
(***************************************************************************)
EXTENDS Integers, Sequences, FiniteSets, TLC

\* null / undefined object (coordinates, tokens, move results)
NULL == [null |-> TRUE]
IsNull(x) == "null" \in DOMAIN x
\* undefined hex key (a missing reverseHexBoard entry)
NoHex == <<"undefined", 0>>
\* null / undefined / empty string
NoTitle == ""
\* null / undefined / empty token key
NoKey == <<>>

\* ------------------------------------------------------------------------
\* Bounds of the model (not program constants)
\* ------------------------------------------------------------------------
MaxCalls == 4

\* ------------------------------------------------------------------------
\* Arithmetic helpers (Math.abs, Math.max, Math.min)
\* ------------------------------------------------------------------------
Abs(x) == IF x < 0 THEN -x ELSE x
Max2(a, b) == IF a >= b THEN a ELSE b
Min2(a, b) == IF a <= b THEN a ELSE b

\* ------------------------------------------------------------------------
\* Directions
\* ------------------------------------------------------------------------
\* Object.entries(DIRECTIONS) / Object.values(Direction) enumeration order
DirOrder == <<"W", "NW", "NE", "E", "SE", "SW">>
Direction == {DirOrder[i] : i \in 1..6}

DIRECTIONS ==
  [d \in Direction |->
     CASE d = "W"  -> [q |-> -1, r |-> 0,  s |-> 1]
       [] d = "NW" -> [q |-> 0,  r |-> -1, s |-> 1]
       [] d = "NE" -> [q |-> 1,  r |-> -1, s |-> 0]
       [] d = "E"  -> [q |-> 1,  r |-> 0,  s |-> -1]
       [] d = "SE" -> [q |-> 0,  r |-> 1,  s |-> -1]
       [] d = "SW" -> [q |-> -1, r |-> 1,  s |-> 0]]

AddDir(c, d) ==
  [q |-> c.q + DIRECTIONS[d].q, r |-> c.r + DIRECTIONS[d].r, s |-> c.s + DIRECTIONS[d].s]

\* `${q},${r},${s}`
CoordKey(c) == <<c.q, c.r, c.s>>

\* Game.ts getDistance and ActionEncoder.getDistance (same body)
getDistanceSigned(a, b) == Max2(Max2(a.q - b.q, a.r - b.r), a.s - b.s)
getDistance(a, b) == Max2(Max2(Abs(a.q - b.q), Abs(a.r - b.r)), Abs(a.s - b.s))

BoardRadius == 7
Origin == [q |-> 0, r |-> 0, s |-> 0]

\* Game.ts getNeighborCoords: NULL when more than 7 hexes from HOME
getNeighborCoords(c, d) ==
  LET n == AddDir(c, d) IN
  IF getDistance(Origin, n) > BoardRadius THEN NULL ELSE n

\* ------------------------------------------------------------------------
\* generateHexes
\* ------------------------------------------------------------------------
SectorLetters == <<"A", "B", "C", "D", "E", "F">>
HexesPerSector == 28
HOME == <<"HOME", 0>>

\* sectorCurrentHexes: the first hex of every sector
sectorCurrentHexes ==
  [i \in 1..6 |-> DIRECTIONS[DirOrder[i]]]

\* posC / negC / zeroC of the sector's first hex (fixed for the sector)
PosC(c)  == IF c.q > 0 THEN "q" ELSE IF c.r > 0 THEN "r" ELSE "s"
NegC(c)  == IF c.q < 0 THEN "q" ELSE IF c.r < 0 THEN "r" ELSE "s"
ZeroC(c) == IF c.q = 0 THEN "q" ELSE IF c.r = 0 THEN "r" ELSE "s"

\* one "Update currCoords for next hex" step of the inner loop
SpiralStep(c, posC, negC, zeroC, direction) ==
  IF direction = 1
  THEN IF c[posC] > 1
       THEN [[c EXCEPT ![posC] = @ - 1] EXCEPT ![zeroC] = @ + 1]
       ELSE LET c1 == [c EXCEPT ![negC] = @ - 1]
                c2 == [c1 EXCEPT ![posC] = c1[negC] * (-1)]
            IN [c2 EXCEPT ![zeroC] = 0]
  ELSE IF c[negC] < -1
       THEN [[c EXCEPT ![negC] = @ + 1] EXCEPT ![zeroC] = @ - 1]
       ELSE LET c1 == [c EXCEPT ![posC] = @ + 1]
                c2 == [c1 EXCEPT ![negC] = c1[posC] * (-1)]
            IN [c2 EXCEPT ![zeroC] = 0]

\* a direction that never flips
SectorDirectionFixed(k) == -1

\* direction starts at -1 and flips after every sector
SectorDirection(k) == IF k % 2 = 1 THEN -1 ELSE 1

RECURSIVE SectorCoords(_, _)
\* coordinates of hex `${letter}${i}` of sector k (k = 1 is "A")
SectorCoords(k, i) ==
  IF i = 1 THEN sectorCurrentHexes[k]
  ELSE LET first == sectorCurrentHexes[k] IN
       SpiralStep(SectorCoords(k, i - 1), PosC(first), NegC(first), ZeroC(first),
                  SectorDirection(k))

HexNames == {HOME} \cup {<<SectorLetters[k], i>> : k \in 1..6, i \in 1..HexesPerSector}

SectorIndex(letter) == CHOOSE k \in 1..6 : SectorLetters[k] = letter

\* hexes: hex key -> cube coordinates
generateHexes ==
  [h \in HexNames |->
     IF h = HOME THEN Origin ELSE SectorCoords(SectorIndex(h[1]), h[2])]

HexCoords == generateHexes

\* reverseHexes: coordinate key -> hex key (a later write to a key wins)
reverseHexBoard ==
  [k \in {CoordKey(HexCoords[h]) : h \in HexNames} |->
     IF k = CoordKey(Origin) /\ ~(\E h \in HexNames \ {HOME} : CoordKey(HexCoords[h]) = k)
     THEN HOME
     ELSE CHOOSE h \in HexNames \ {HOME} :
            /\ CoordKey(HexCoords[h]) = k
            /\ \A g \in HexNames \ {HOME} :
                 CoordKey(HexCoords[g]) = k =>
                   \/ SectorIndex(g[1]) < SectorIndex(h[1])
                   \/ (g[1] = h[1] /\ g[2] <= h[2])]

\* G.reverseHexBoard[key], undefined (NoHex) for an unknown key
ReverseLookup(c) ==
  IF CoordKey(c) \in DOMAIN reverseHexBoard THEN reverseHexBoard[CoordKey(c)] ELSE NoHex

\* ------------------------------------------------------------------------
\* ActionEncoder constructor: this.hexKeys = [...Object.keys(hexBoard)].sort()
\* ------------------------------------------------------------------------
\* UTF-16 code units of a decimal number 1..99
Digits(n) == IF n < 10 THEN <<48 + n>> ELSE <<48 + (n \div 10), 48 + (n % 10)>>

LetterCode(l) ==
  CASE l = "A" -> 65 [] l = "B" -> 66 [] l = "C" -> 67
    [] l = "D" -> 68 [] l = "E" -> 69 [] l = "F" -> 70

\* code units of a hex key
Chars(h) == IF h = HOME THEN <<72, 79, 77, 69>> ELSE <<LetterCode(h[1])>> \o Digits(h[2])

\* default Array.prototype.sort order: code unit by code unit, a prefix first
StrLess(a, b) ==
  \E i \in 1..(Min2(Len(a), Len(b)) + 1) :
    /\ \A j \in 1..(i - 1) : a[j] = b[j]
    /\ \/ (i = Len(a) + 1 /\ i <= Len(b))
       \/ (i <= Len(a) /\ i <= Len(b) /\ a[i] < b[i])

\* 0-based position of a hex key in the sorted key list
SortedIndex ==
  [h \in HexNames |-> Cardinality({g \in HexNames : StrLess(Chars(g), Chars(h))})]

\* this.hexKeys (1-based sequence: hexKeys[i + 1] is the JS hexKeys[i])
hexKeys == [i \in 1..Cardinality(HexNames) |-> CHOOSE h \in HexNames : SortedIndex[h] = i - 1]

\* this.hexKeys.indexOf(h), -1 when absent
HexKeysIndexOf(h) == IF h \in HexNames THEN SortedIndex[h] ELSE -1

\* ------------------------------------------------------------------------
\* ActionEncoder range constants
\* ------------------------------------------------------------------------
ACTION_SPACE_SIZE == 198
MOVE_SHIP_START == 0
MOVE_SHIP_END == 168
PLAY_CARD_START == 169
PLAY_CARD_END == 188
DRAW_CARD_NO_DISCARD == 189
DRAW_CARD_DISCARD_START == 190
DRAW_CARD_DISCARD_END == 194
COLLECT_RESOURCES_START == 195
COLLECT_RESOURCES_END == 196
PASS_ACTION == 197

ActionIds == 0..(ACTION_SPACE_SIZE - 1)

\* ------------------------------------------------------------------------
\* ActionEncoder.findPath (greedy, first best direction in DirOrder wins)
\* ------------------------------------------------------------------------
\* the direction chosen by one pass of the "Try all 6 directions" loop
BestDir(current, to) ==
  LET d(i) == getDistance(AddDir(current, DirOrder[i]), to)
      distance == <<d(1), d(2), d(3), d(4), d(5), d(6)>>
  IN
  CHOOSE i \in 1..6 :
    /\ \A j \in 1..6 : distance[i] <= distance[j]
    /\ \A j \in 1..(i - 1) : distance[j] > distance[i]

RECURSIVE FindPathFrom(_, _, _)
FindPathFrom(current, to, stepsLeft) ==
  IF stepsLeft <= 0 THEN <<>>
  ELSE LET d == DirOrder[BestDir(current, to)] IN
       <<d>> \o FindPathFrom(AddDir(current, d), to, stepsLeft - 1)

\* findPath without the cap of the step count at the distance
findPathUncapped(from, to, maxSteps) == FindPathFrom(from, to, maxSteps)

findPath(from, to, maxSteps) ==
  FindPathFrom(from, to, Min2(getDistance(from, to), maxSteps))

RECURSIVE ApplyDirs(_, _)
\* "Apply all directions to get final position" (no bounds check)
ApplyDirs(c, dirs) ==
  IF dirs = <<>> THEN c ELSE ApplyDirs(AddDir(c, Head(dirs)), Tail(dirs))

\* ------------------------------------------------------------------------
\* Tokens, icons and token keys
\* ------------------------------------------------------------------------
AnyConcreteTypes == <<"red", "orange", "yellow", "white", "blue">>
SizedTypes == {"red", "orange", "yellow", "white", "blue", "nebula", "blackhole"}
UnsizedTypes == {"planet", "whitedwarf", "browndwarf", "neutronstar"}

\* Game.ts lookupKey / ActionEncoder.makeTokenKeyFromIcon / ActionEncoder.lookupKey
\* for a non-null token or icon: `${type}-${size}` or type
lookupKey(token) ==
  IF "size" \in DOMAIN token THEN <<token.type, token.size>> ELSE <<token.type>>

\* Game.ts reconstructTokenFromKey (key.split('-'))
reconstructTokenFromKey(key) ==
  IF key = NoKey THEN NULL
  ELSE IF key[1] \in SizedTypes
       THEN IF Len(key) >= 2 THEN [type |-> key[1], size |-> key[2]] ELSE NULL
       ELSE IF key[1] \in UnsizedTypes THEN [type |-> key[1]]
       ELSE NULL

\* token created from an icon in setup and ai.enumerate (drops count)
TokenOfIcon(icon) ==
  IF "size" \in DOMAIN icon THEN [type |-> icon.type, size |-> icon.size]
  ELSE [type |-> icon.type]

\* ------------------------------------------------------------------------
\* Card data (stands for data/star_system_cards.json: unique titles)
\* ------------------------------------------------------------------------
Star(t, z) == [type |-> t, size |-> z, count |-> 1]
Body(t) == [type |-> t, count |-> 1]

CardData ==
  [title \in {"Sol", "Noquisi", "Lalande 21185", "Capella", "Algol", "Gacrux", "Sirius", "Vega"} |->
     CASE title = "Sol" ->
            [title |-> title, hexCoordinate |-> HOME, zoneNumber |-> 0,
             celestialBodyIcons |-> <<Star("yellow", "normal"), Body("planet")>>,
             itineraryIcons |-> <<>>]
       [] title = "Noquisi" ->
            [title |-> title, hexCoordinate |-> <<"A", 1>>, zoneNumber |-> 1,
             celestialBodyIcons |-> <<Star("red", "normal"), Body("any")>>,
             itineraryIcons |-> <<"Nearest Stars">>]
       [] title = "Lalande 21185" ->
            [title |-> title, hexCoordinate |-> <<"D", 2>>, zoneNumber |-> 1,
             celestialBodyIcons |-> <<Star("red", "normal"), Body("whitedwarf")>>,
             itineraryIcons |-> <<"Nearest Stars">>]
       [] title = "Capella" ->
            [title |-> title, hexCoordinate |-> <<"C", 1>>, zoneNumber |-> 1,
             celestialBodyIcons |-> <<Body("any")>>,
             itineraryIcons |-> <<>>]
       [] title = "Algol" ->
            [title |-> title, hexCoordinate |-> <<"E", 9>>, zoneNumber |-> 1,
             celestialBodyIcons |-> <<Star("blue", "normal"), Star("orange", "giant")>>,
             itineraryIcons |-> <<>>]
       [] title = "Gacrux" ->
            [title |-> title, hexCoordinate |-> <<"B", 28>>, zoneNumber |-> 1,
             celestialBodyIcons |-> <<Star("red", "giant")>>,
             itineraryIcons |-> <<>>]
       [] title = "Sirius" ->
            [title |-> title, hexCoordinate |-> <<"F", 3>>, zoneNumber |-> 1,
             celestialBodyIcons |-> <<Star("white", "normal"), Body("whitedwarf")>>,
             itineraryIcons |-> <<>>]
       [] title = "Vega" ->
            [title |-> title, hexCoordinate |-> <<"B", 5>>, zoneNumber |-> 2,
             celestialBodyIcons |-> <<Star("white", "normal")>>,
             itineraryIcons |-> <<>>]]

CardTitles == DOMAIN CardData

\* CardLoader.loadStarSystemCards: one deck per zone, zone 0 and 1 unlocked,
\* the top of a deck is the end of its array.  zoneDecks[z + 1] is the
\* JS zoneDecks[z].
LoadedDecks ==
  <<[cards |-> <<"Sol">>, isLocked |-> FALSE],
    [cards |-> <<"Sirius", "Noquisi", "Lalande 21185", "Capella", "Algol", "Gacrux">>,
     isLocked |-> FALSE],
    [cards |-> <<"Vega">>, isLocked |-> TRUE]>>

\* createSimplifiedGame: zones 0 and 1 copied, zones 2..4 empty and locked
SimplifiedDecks ==
  <<[cards |-> LoadedDecks[1].cards, isLocked |-> FALSE],
    [cards |-> LoadedDecks[2].cards, isLocked |-> FALSE],
    [cards |-> <<>>, isLocked |-> TRUE],
    [cards |-> <<>>, isLocked |-> TRUE],
    [cards |-> <<>>, isLocked |-> TRUE]>>

\* ------------------------------------------------------------------------
\* Token effects, role cards, itinerary cards (data/*.json, SimplifiedGame)
\* ------------------------------------------------------------------------
\* keys of celestial_body_token_types.json (StateEncoder TOKEN_TYPE_ORDER)
TOKEN_TYPE_ORDER ==
  {<<t, z>> : t \in SizedTypes \ {"blackhole"}, z \in {"normal", "giant", "supergiant"}}
  \cup {<<"blackhole", z>> : z \in {"normal", "giant"}}
  \cup {<<t>> : t \in UnsizedTypes}

LoadedTokenEffects ==
  [k \in TOKEN_TYPE_ORDER |->
     IF k[1] \in {"whitedwarf", "browndwarf", "nebula", "neutronstar", "blackhole"}
     THEN [energyChange |-> 0, armorChange |-> -1, numResearchTokens |-> 1]
     ELSE IF k[1] = "planet"
     THEN [energyChange |-> 0, armorChange |-> 1, numResearchTokens |-> 0]
     ELSE [energyChange |-> 2, armorChange |-> 0, numResearchTokens |-> 0]]

\* createSimplifiedGame: const tokenEffects = {}
EmptyTokenEffects == [k \in {} |-> 0]

NoRole == [name |-> "No Role", affectedAction |-> ""]
PilotRole == [name |-> "Pilot", affectedAction |-> "moveShip"]
EngineerRole ==
  [name |-> "Engineer", affectedAction |-> "collectResources", bonusResourceType |-> "energy"]

NoItinerary ==
  [name |-> "No Itinerary", pointsPerItineraryIcon |-> 0,
   pointsPerMatchingCelestialBodyIcon |-> 0, matchingCelestialBodyIcons |-> <<>>]
NearestStars ==
  [name |-> "Nearest Stars", pointsPerItineraryIcon |-> 2,
   pointsPerMatchingCelestialBodyIcon |-> 0, matchingCelestialBodyIcons |-> <<>>]
RedStars ==
  [name |-> "Red Stars", pointsPerItineraryIcon |-> 0,
   pointsPerMatchingCelestialBodyIcon |-> 1,
   matchingCelestialBodyIcons |-> <<[type |-> "red", size |-> "normal"]>>]

ROUNDS_PER_PHASE == 5

\* the arguments of makeLightsInTheVoidGame in the two programs that create a
\* game: server/SimplifiedGame.ts and App.ts
GameParams ==
  [simplified |->
     [decks |-> SimplifiedDecks, roleCards |-> <<NoRole>>, itineraryCards |-> <<NoItinerary>>,
      tokenEffects |-> EmptyTokenEffects, researchTopics |-> <<>>,
      numPlayers |-> 1, numPhases |-> 1, winThreshold |-> 10],
   app |->
     [decks |-> LoadedDecks, roleCards |-> <<PilotRole, EngineerRole>>,
      itineraryCards |-> <<NearestStars, RedStars>>,
      tokenEffects |-> LoadedTokenEffects,
      researchTopics |-> <<[name |-> "Upgrade Sensors", cost |-> 2, costIncrease |-> 1,
                            maxEnergyChange |-> 0, maxArmorChange |-> 0, speedChange |-> 0,
                            unlocksDeck |-> TRUE]>>,
      numPlayers |-> 2, numPhases |-> 1, winThreshold |-> 20]]

\* the arguments of makeLightsInTheVoidGame in calibrateDifficulty, by the
\* key `${numPlayers}P_${numPhases}Ph` of runFullCalibration; the role and
\* itinerary cards are the first numPlayers of the loaded ones
CalibrationParams ==
  [name \in {"1P_1Ph", "2P_1Ph", "1P_2Ph", "2P_2Ph"} |->
     [decks |-> LoadedDecks, roleCards |-> <<PilotRole, EngineerRole>>,
      itineraryCards |-> <<NearestStars, RedStars>>,
      tokenEffects |-> LoadedTokenEffects,
      researchTopics |-> GameParams.app.researchTopics,
      numPlayers |-> IF name \in {"1P_1Ph", "1P_2Ph"} THEN 1 ELSE 2,
      numPhases |-> IF name \in {"1P_1Ph", "2P_1Ph"} THEN 1 ELSE 2,
      winThreshold |-> 3]]

\* the arguments the game called name was made with
ParamsOf(name) ==
  IF name \in DOMAIN GameParams THEN GameParams[name] ELSE CalibrationParams[name]

PlayerIDs(n) == {IF i = 0 THEN "0" ELSE IF i = 1 THEN "1" ELSE "2" : i \in 0..(n - 1)}
PlayerIndex(p) == IF p = "0" THEN 0 ELSE IF p = "1" THEN 1 ELSE 2

\* ------------------------------------------------------------------------
\* Sequence helpers (Array.prototype.findIndex / splice / pop / indexOf)
\* ------------------------------------------------------------------------
\* 0-based index of the first element equal to x, -1 when absent
IndexOf(seq, x) ==
  IF \E i \in 1..Len(seq) : seq[i] = x
  THEN (CHOOSE i \in 1..Len(seq) : seq[i] = x /\ \A j \in 1..(i - 1) : seq[j] # x) - 1
  ELSE -1

\* a splice that removes nothing
RemoveAtKeepsAll(seq, idx) == seq
\* seq.splice(idx, 1) on a 0-based index
RemoveAt(seq, idx) == [i \in 1..(Len(seq) - 1) |-> IF i <= idx THEN seq[i] ELSE seq[i + 1]]

\* the array left by pop()
Popped(seq) == SubSeq(seq, 1, Len(seq) - 1)
\* the value returned by pop()
Top(seq) == seq[Len(seq)]

RECURSIVE SumSeq(_)
SumSeq(seq) == IF seq = <<>> THEN 0 ELSE Head(seq) + SumSeq(Tail(seq))

\* ------------------------------------------------------------------------
\* Points (calculateCardPointsPerPlayer / applyCardPoints).  The cards and
\* itineraries of the model carry no subicons and no second icon set.
\* ------------------------------------------------------------------------
IconMatches(icon, matchingIcon) ==
  /\ icon.type = matchingIcon.type
  /\ \/ ~("size" \in DOMAIN icon /\ "size" \in DOMAIN matchingIcon)
     \/ icon.size = matchingIcon.size

NumMatchingIcons(card, itineraryCard) ==
  SumSeq([i \in 1..Len(card.celestialBodyIcons) |->
            card.celestialBodyIcons[i].count *
              Cardinality({j \in 1..Len(itineraryCard.matchingCelestialBodyIcons) :
                             IconMatches(card.celestialBodyIcons[i],
                                         itineraryCard.matchingCelestialBodyIcons[j])})])

calculateCardPointsPerPlayer(card, currentPlayerID, playerItineraryCards) ==
  [pID \in DOMAIN playerItineraryCards \cup {currentPlayerID} |->
     (IF pID = currentPlayerID THEN card.zoneNumber * 2 - 1 ELSE 0)
     + (IF pID \in DOMAIN playerItineraryCards
        THEN LET it == playerItineraryCards[pID]
                 n == NumMatchingIcons(card, it)
             IN it.pointsPerItineraryIcon
                  * Cardinality({i \in 1..Len(card.itineraryIcons) : card.itineraryIcons[i] = it.name})
                + (IF Len(it.matchingCelestialBodyIcons) > 0 /\ n >= 1
                   THEN it.pointsPerMatchingCelestialBodyIcon * n ELSE 0)
        ELSE 0)]

\* G.playerPoints after applyCardPoints (the entry of player "" is skipped)
applyCardPoints(card, currentPlayerID, playerItineraryCards, playerPoints) ==
  LET pts == calculateCardPointsPerPlayer(card, currentPlayerID, playerItineraryCards) IN
  [pID \in DOMAIN playerPoints |-> playerPoints[pID] + pts[pID]]

\* ------------------------------------------------------------------------
\* makeLightsInTheVoidGame: module-level config and setup
\* ------------------------------------------------------------------------
\* Object.assign(config, {...})
MakeConfig(params) ==
  [numPhases |-> params.numPhases,
   winThreshold |-> params.winThreshold,
   maxTurns |-> ROUNDS_PER_PHASE * params.numPhases * params.numPlayers,
   tokenEffects |-> params.tokenEffects,
   researchTopics |-> params.researchTopics]

EmptyCell == [celestialBodyToken |-> NULL, numResearchTokens |-> 0]

\* setup: the initial G
Setup(params) ==
  LET decks == params.decks
      zone0Card == CardData[Top(decks[1].cards)]
      players == PlayerIDs(params.numPlayers)
      itineraries == [p \in players |-> params.itineraryCards[PlayerIndex(p) + 1]]
      deck1 == decks[2].cards
      n1 == Len(deck1)
  IN
  [shipStatus |-> [location |-> HOME, energy |-> 5, maxEnergy |-> 5, armor |-> 5,
                   maxArmor |-> 5, numResearchTokens |-> 0, speed |-> 2],
   playerRoleCards |-> [p \in players |-> params.roleCards[PlayerIndex(p) + 1]],
   playerItineraryCards |-> itineraries,
   detectedStarSystems |-> [i \in 1..5 |-> deck1[n1 + 1 - i]],
   playerPoints |-> applyCardPoints(zone0Card, "", itineraries, [p \in players |-> 0]),
   playedCards |-> <<zone0Card.title>>,
   zoneDecks |-> [z \in 1..Len(decks) |->
                    IF z = 1 THEN [decks[z] EXCEPT !.cards = Popped(@)]
                    ELSE IF z = 2 THEN [decks[z] EXCEPT !.cards = SubSeq(deck1, 1, n1 - 5)]
                    ELSE decks[z]],
   hexBoard |-> [h \in HexNames |->
                   IF h = HOME
                   THEN [celestialBodyToken |-> TokenOfIcon(zone0Card.celestialBodyIcons[1]),
                         celestialBodyToken2 |-> TokenOfIcon(zone0Card.celestialBodyIcons[2]),
                         numResearchTokens |-> 0]
                   ELSE EmptyCell],
   phasePointTotals |-> <<>>,
   researchedCount |-> [t \in {"Upgrade Sensors"} |-> 0],
   currentTurnMoves |-> 0,
   currentTurnMoveShipCalled |-> FALSE]

\* setup throws a TypeError when the zone 0 deck has no card left to pop
SetupThrows(closureDecks) == Len(closureDecks[1].cards) = 0

\* the closed-over decks array after setup: one card popped from zone 0 and
\* five from zone 1 (pop on an empty array removes nothing)
SetupDecks(closureDecks) ==
  [z \in 1..Len(closureDecks) |->
     IF z = 1 THEN [closureDecks[z] EXCEPT !.cards = Popped(@)]
     ELSE IF z = 2
     THEN [closureDecks[z] EXCEPT !.cards = SubSeq(@, 1, Max2(0, Len(@) - 5))]
     ELSE closureDecks[z]]

\* ------------------------------------------------------------------------
\* Rule engine moves.  A move returns [status |-> "ok", G |-> G'] or
\* [status |-> INVALID_MOVE] or [status |-> THROWS] (an uncaught TypeError).
\* ------------------------------------------------------------------------
INVALID_MOVE == "INVALID_MOVE"
THROWS == "throws"
Ok(g) == [status |-> "ok", G |-> g]
Invalid == [status |-> INVALID_MOVE]
Throws == [status |-> THROWS]

RECURSIVE WalkDirs(_, _)
\* the loop of moveShip over getNeighborCoords: NULL as soon as a step leaves the board
WalkDirs(c, dirs) ==
  IF dirs = <<>> THEN c
  ELSE LET n == getNeighborCoords(c, Head(dirs)) IN
       IF IsNull(n) THEN NULL ELSE WalkDirs(n, Tail(dirs))

\* moveShip without the line that records the move in currentTurnMoveShipCalled
moveShipUnflagged(g, dirs) ==
  IF Len(dirs) > g.shipStatus.speed THEN Invalid
  ELSE LET currCoords == WalkDirs(HexCoords[g.shipStatus.location], dirs) IN
       IF IsNull(currCoords) THEN Invalid
       ELSE Ok([g EXCEPT !.shipStatus.location = ReverseLookup(currCoords),
                         !.shipStatus.energy = @ - 1,
                         !.currentTurnMoves = @ + 1])

moveShip(g, dirs) ==
  IF Len(dirs) > g.shipStatus.speed THEN Invalid
  ELSE LET currCoords == WalkDirs(HexCoords[g.shipStatus.location], dirs) IN
       IF IsNull(currCoords) THEN Invalid
       ELSE Ok([g EXCEPT !.shipStatus.location = ReverseLookup(currCoords),
                         !.shipStatus.energy = @ - 1,
                         !.currentTurnMoves = @ + 1,
                         !.currentTurnMoveShipCalled = TRUE])

\* zoneNumber is a JS index: zoneDecks[zoneNumber + 1] here
drawCard(g, zoneNumber, cardToDiscard) ==
  IF g.currentTurnMoves = 3 /\ ~g.currentTurnMoveShipCalled THEN Invalid
  ELSE IF zoneNumber < 1 \/ zoneNumber > Len(g.zoneDecks) THEN Invalid
  ELSE IF zoneNumber + 1 \notin DOMAIN g.zoneDecks THEN Throws
  ELSE LET zoneDeck == g.zoneDecks[zoneNumber + 1]
           hand == g.detectedStarSystems
           discardIndex == IndexOf(hand, cardToDiscard)
           drawn(h) == [g EXCEPT !.detectedStarSystems = Append(h, Top(zoneDeck.cards)),
                                 !.zoneDecks[zoneNumber + 1].cards = Popped(@),
                                 !.currentTurnMoves = @ + 1]
       IN
       IF zoneDeck.isLocked \/ Len(zoneDeck.cards) = 0 THEN Invalid
       ELSE IF Len(hand) >= 5
            THEN IF cardToDiscard # NoTitle
                 THEN IF discardIndex = -1 THEN Invalid
                      ELSE Ok(drawn(RemoveAt(hand, discardIndex)))
                 ELSE Invalid
            ELSE Ok(drawn(hand))

\* the foundMatch loop of playCard
TokenMatchesCard(card, tokenToPlay) ==
  \E i \in 1..Len(card.celestialBodyIcons) :
    LET icon == card.celestialBodyIcons[i] IN
    \/ /\ icon.type = tokenToPlay.type
       /\ \/ ~("size" \in DOMAIN icon)
          \/ ~("size" \in DOMAIN tokenToPlay)
          \/ icon.size = tokenToPlay.size
    \/ /\ icon.type = "any"
       /\ \E j \in 1..Len(AnyConcreteTypes) : AnyConcreteTypes[j] = tokenToPlay.type
       /\ (~("size" \in DOMAIN tokenToPlay) \/ tokenToPlay.size = "normal")

playCard(g, cfg, playerID, cardTitle, tokenToPlayKey) ==
  IF g.currentTurnMoves = 3 /\ ~g.currentTurnMoveShipCalled THEN Invalid
  ELSE LET hand == g.detectedStarSystems
           cardToPlayIndex == IndexOf(hand, cardTitle)
       IN
       IF \/ cardToPlayIndex = -1
          \/ g.shipStatus.location # CardData[hand[cardToPlayIndex + 1]].hexCoordinate
          \/ tokenToPlayKey = NoKey
       THEN Invalid
       ELSE LET tokenToPlay == reconstructTokenFromKey(tokenToPlayKey)
                cardToPlay == CardData[hand[cardToPlayIndex + 1]]
            IN
            IF IsNull(tokenToPlay) THEN Invalid
            ELSE IF ~TokenMatchesCard(cardToPlay, tokenToPlay) THEN Invalid
            \* config.tokenEffects![tokenToPlayKey].numResearchTokens
            ELSE IF tokenToPlayKey \notin DOMAIN cfg.tokenEffects THEN Throws
            ELSE Ok([g EXCEPT
                       !.detectedStarSystems = RemoveAt(hand, cardToPlayIndex),
                       !.playedCards = Append(@, cardToPlay.title),
                       !.playerPoints = applyCardPoints(cardToPlay, playerID,
                                                        g.playerItineraryCards, @),
                       !.hexBoard[g.shipStatus.location].celestialBodyToken = tokenToPlay,
                       !.hexBoard[g.shipStatus.location].numResearchTokens =
                           cfg.tokenEffects[tokenToPlayKey].numResearchTokens,
                       !.currentTurnMoves = @ + 1])

collectResources(g, cfg, currentPlayer, tokenToCollectFromKey) ==
  IF g.currentTurnMoves = 3 /\ ~g.currentTurnMoveShipCalled THEN Invalid
  ELSE LET currentHex == g.hexBoard[g.shipStatus.location]
           hasSecond == "celestialBodyToken2" \in DOMAIN currentHex
       IN
       \* lookupKey(null): "size" in null is a TypeError
       IF IsNull(currentHex.celestialBodyToken) THEN Throws
       ELSE IF hasSecond /\ IsNull(currentHex.celestialBodyToken2) THEN Throws
       ELSE LET key == lookupKey(currentHex.celestialBodyToken)
                key2 == IF hasSecond THEN lookupKey(currentHex.celestialBodyToken2) ELSE NoKey
            IN
            IF key # tokenToCollectFromKey /\ key2 # tokenToCollectFromKey THEN Invalid
            ELSE IF tokenToCollectFromKey \notin DOMAIN cfg.tokenEffects THEN Invalid
            ELSE LET effects == cfg.tokenEffects[tokenToCollectFromKey]
                     role == g.playerRoleCards[currentPlayer]
                     hasEnergyBonus == /\ role.affectedAction = "collectResources"
                                       /\ "bonusResourceType" \in DOMAIN role
                                       /\ role.bonusResourceType = "energy"
                     hasArmorBonus == /\ role.affectedAction = "collectResources"
                                      /\ "bonusResourceType" \in DOMAIN role
                                      /\ role.bonusResourceType = "armor"
                     energyIncrease == IF hasEnergyBonus /\ effects.energyChange > 0
                                       THEN effects.energyChange + 2 ELSE effects.energyChange
                     armorChange == IF hasArmorBonus /\ effects.armorChange # 0
                                    THEN effects.armorChange + 1 ELSE effects.armorChange
                     status == g.shipStatus
                 IN
                 Ok([g EXCEPT
                       !.shipStatus.energy = Min2(status.maxEnergy, status.energy + energyIncrease),
                       !.shipStatus.armor = Min2(status.maxArmor, status.armor + armorChange),
                       !.shipStatus.numResearchTokens = @ + currentHex.numResearchTokens,
                       !.hexBoard[status.location].numResearchTokens = 0,
                       !.currentTurnMoves = @ + 1])

\* a move that returns INVALID_MOVE after it wrote to G: the draft it leaves
Rejected(draft) == [status |-> INVALID_MOVE, G |-> draft]

\* doResearch; with unlockFirst the deck is unlocked before the cost is checked
doResearchFrom(g, cfg, researchTopicName, unlockFirst) ==
  IF g.currentTurnMoves = 3 /\ ~g.currentTurnMoveShipCalled THEN Invalid
  ELSE IF ~\E i \in 1..Len(cfg.researchTopics) : cfg.researchTopics[i].name = researchTopicName
  THEN Invalid
  ELSE LET researchTopic == cfg.researchTopics[
                              CHOOSE i \in 1..Len(cfg.researchTopics) :
                                cfg.researchTopics[i].name = researchTopicName]
           \* if (!G.researchedCount[name]) G.researchedCount[name] = 0
           counted == IF researchTopicName \in DOMAIN g.researchedCount
                         /\ g.researchedCount[researchTopicName] # 0
                      THEN g.researchedCount
                      ELSE (researchTopicName :> 0) @@ g.researchedCount
           locked == {z \in 1..Len(g.zoneDecks) : g.zoneDecks[z].isLocked}
           deckToUnlock == CHOOSE z \in locked : \A y \in locked : z <= y
           unlocked(d) == IF researchTopic.unlocksDeck /\ locked # {}
                          THEN [d EXCEPT !.zoneDecks[deckToUnlock].isLocked = FALSE] ELSE d
           g1 == [g EXCEPT !.researchedCount = counted]
           draft == IF unlockFirst THEN unlocked(g1) ELSE g1
           costIncrease == IF researchTopic.costIncrease # 0
                           THEN counted[researchTopicName] * researchTopic.costIncrease ELSE 0
           actualCost == researchTopic.cost + costIncrease
       IN
       IF draft.shipStatus.numResearchTokens < actualCost THEN Rejected(draft)
       ELSE IF researchTopic.unlocksDeck /\ locked = {} THEN Rejected(draft)
       ELSE Ok([unlocked(draft) EXCEPT
                  !.shipStatus.numResearchTokens = @ - actualCost,
                  !.shipStatus.maxEnergy = @ + researchTopic.maxEnergyChange,
                  !.shipStatus.maxArmor = @ + researchTopic.maxArmorChange,
                  !.shipStatus.speed = @ + researchTopic.speedChange,
                  !.researchedCount[researchTopicName] = @ + 1,
                  !.currentTurnMoves = @ + 1])

doResearchUnlocksFirst(g, cfg, researchTopicName) ==
  doResearchFrom(g, cfg, researchTopicName, TRUE)
doResearch(g, cfg, researchTopicName) ==
  doResearchFrom(g, cfg, researchTopicName, FALSE)

passCounted(g) == Ok([g EXCEPT !.currentTurnMoves = @ + 1])
pass(g) == Ok(g)

ShipDestroyed(g) == g.shipStatus.armor <= 0 \/ g.shipStatus.energy <= 0

\* ------------------------------------------------------------------------
\* ActionEncoder: token options
\* ------------------------------------------------------------------------
\* options.push(key) unless options.includes(key)
PushUnique(options, key) ==
  IF \E i \in 1..Len(options) : options[i] = key THEN options ELSE Append(options, key)

RECURSIVE PushAll(_, _)
PushAll(options, keys) ==
  IF keys = <<>> THEN options ELSE PushAll(PushUnique(options, Head(keys)), Tail(keys))

RECURSIVE ExpandIcons(_, _)
\* the loop over card.celestialBodyIcons
ExpandIcons(icons, options) ==
  IF icons = <<>> THEN options
  ELSE LET icon == Head(icons) IN
       IF icon.type = "any"
       THEN ExpandIcons(Tail(icons),
                        PushAll(options, [i \in 1..Len(AnyConcreteTypes) |->
                                            <<AnyConcreteTypes[i], "normal">>]))
       ELSE ExpandIcons(Tail(icons), PushUnique(options, lookupKey(icon)))

MaxTokenOptions == 4

\* options.slice(0, 4)
getCardTokenOptions(card) ==
  LET options == ExpandIcons(card.celestialBodyIcons, <<>>) IN
  SubSeq(options, 1, Min2(Len(options), MaxTokenOptions))

getNumTokenOptions(card) == Len(getCardTokenOptions(card))

\* StateEncoder.getCardTokenOptions: its own copy of the derivation, with the
\* concrete keys of 'any' written out
StateEncoderConcreteTypes ==
  <<<<"red", "normal">>, <<"orange", "normal">>, <<"yellow", "normal">>,
    <<"white", "normal">>, <<"blue", "normal">>>>

RECURSIVE StateEncoderExpandIcons(_, _)
StateEncoderExpandIcons(iconList, opts) ==
  IF iconList = <<>> THEN opts
  ELSE LET icon == Head(iconList) IN
       IF icon.type = "any"
       THEN StateEncoderExpandIcons(Tail(iconList), PushAll(opts, StateEncoderConcreteTypes))
       ELSE StateEncoderExpandIcons(Tail(iconList), PushUnique(opts, lookupKey(icon)))

\* the StateEncoder derivation without the cut to four options
StateEncoderOptionsUncut(card) == StateEncoderExpandIcons(card.celestialBodyIcons, <<>>)

StateEncoderGetCardTokenOptions(card) ==
  LET opts == StateEncoderExpandIcons(card.celestialBodyIcons, <<>>) IN
  SubSeq(opts, 1, Min2(Len(opts), MaxTokenOptions))

findTokenOptionIndex(card, tokenKey) == IndexOf(getCardTokenOptions(card), tokenKey)

\* ------------------------------------------------------------------------
\* ActionEncoder.encodeAction: an action id, or EncodeThrows for a thrown Error
\* ------------------------------------------------------------------------
EncodeThrows == -1
HandLimit == 5

encodeMoveShip(args, g) ==
  LET finalCoords == ApplyDirs(HexCoords[g.shipStatus.location], args)
      targetHex == ReverseLookup(finalCoords)
  IN
  IF targetHex = NoHex THEN EncodeThrows
  ELSE IF HexKeysIndexOf(targetHex) = -1 THEN EncodeThrows
  ELSE MOVE_SHIP_START + HexKeysIndexOf(targetHex)

\* encodePlayCard without the stride of four ids per hand slot
encodePlayCardNoStride(args, g) ==
  LET hand == g.detectedStarSystems
      cardIndex == IndexOf(hand, args[1])
  IN
  IF cardIndex = -1 \/ cardIndex >= HandLimit THEN EncodeThrows
  ELSE LET tokenIndex == findTokenOptionIndex(CardData[hand[cardIndex + 1]], args[2]) IN
       IF tokenIndex = -1 \/ tokenIndex >= MaxTokenOptions THEN EncodeThrows
       ELSE PLAY_CARD_START + cardIndex + tokenIndex

encodePlayCard(args, g) ==
  LET hand == g.detectedStarSystems
      cardIndex == IndexOf(hand, args[1])
  IN
  IF cardIndex = -1 \/ cardIndex >= HandLimit THEN EncodeThrows
  ELSE LET tokenIndex == findTokenOptionIndex(CardData[hand[cardIndex + 1]], args[2]) IN
       IF tokenIndex = -1 \/ tokenIndex >= MaxTokenOptions THEN EncodeThrows
       ELSE PLAY_CARD_START + (cardIndex * 4) + tokenIndex

\* encodeDrawCard counting the discard slots from one
encodeDrawCardFromOne(args, g) ==
  LET zoneNumber == args[1]
      cardToDiscard == IF Len(args) >= 2 THEN args[2] ELSE NoTitle
      discardIndex == IndexOf(g.detectedStarSystems, cardToDiscard)
  IN
  IF zoneNumber # 1 THEN EncodeThrows
  ELSE IF cardToDiscard = NoTitle THEN DRAW_CARD_NO_DISCARD
  ELSE IF discardIndex = -1 \/ discardIndex >= HandLimit THEN EncodeThrows
  ELSE DRAW_CARD_DISCARD_START + discardIndex + 1

encodeDrawCard(args, g) ==
  LET zoneNumber == args[1]
      cardToDiscard == IF Len(args) >= 2 THEN args[2] ELSE NoTitle
      discardIndex == IndexOf(g.detectedStarSystems, cardToDiscard)
  IN
  IF zoneNumber # 1 THEN EncodeThrows
  ELSE IF cardToDiscard = NoTitle THEN DRAW_CARD_NO_DISCARD
  ELSE IF discardIndex = -1 \/ discardIndex >= HandLimit THEN EncodeThrows
  ELSE DRAW_CARD_DISCARD_START + discardIndex

encodeCollectResources(args, g) ==
  LET tokenKey == args[1]
      currentHex == g.hexBoard[g.shipStatus.location]
  IN
  \* this.lookupKey throws for a null token
  IF IsNull(currentHex.celestialBodyToken) THEN EncodeThrows
  ELSE IF lookupKey(currentHex.celestialBodyToken) = tokenKey THEN COLLECT_RESOURCES_START
  ELSE IF "celestialBodyToken2" \in DOMAIN currentHex
       THEN IF IsNull(currentHex.celestialBodyToken2) THEN EncodeThrows
            ELSE IF lookupKey(currentHex.celestialBodyToken2) = tokenKey
                 THEN COLLECT_RESOURCES_START + 1
                 ELSE EncodeThrows
       ELSE EncodeThrows

encodeAction(move, args, g) ==
  CASE move = "moveShip" -> encodeMoveShip(args, g)
    [] move = "playCard" -> encodePlayCard(args, g)
    [] move = "drawCard" -> encodeDrawCard(args, g)
    [] move = "collectResources" -> encodeCollectResources(args, g)
    [] move = "pass" -> PASS_ACTION
    [] OTHER -> EncodeThrows

\* ------------------------------------------------------------------------
\* ActionEncoder.decodeAction: [move, args], or DecodeThrows for a thrown Error
\* ------------------------------------------------------------------------
DecodeThrows == [move |-> THROWS, args |-> <<>>]

decodeMoveShip(actionId, g) ==
  LET targetHex == hexKeys[(actionId - MOVE_SHIP_START) + 1] IN
  [move |-> "moveShip",
   args |-> findPath(HexCoords[g.shipStatus.location], HexCoords[targetHex],
                     g.shipStatus.speed)]

decodePlayCard(actionId, g) ==
  LET offset == actionId - PLAY_CARD_START
      cardIndex == offset \div 4
      tokenIndex == offset % 4
      hand == g.detectedStarSystems
  IN
  IF cardIndex + 1 \notin DOMAIN hand THEN DecodeThrows
  ELSE LET tokenOptions == getCardTokenOptions(CardData[hand[cardIndex + 1]]) IN
       \* getTokenKeyByIndex
       IF tokenIndex < 0 \/ tokenIndex >= Len(tokenOptions) THEN DecodeThrows
       ELSE [move |-> "playCard", args |-> <<hand[cardIndex + 1], tokenOptions[tokenIndex + 1]>>]

decodeDrawCard(actionId, g) ==
  IF actionId = DRAW_CARD_NO_DISCARD THEN [move |-> "drawCard", args |-> <<1>>]
  ELSE LET discardIndex == actionId - DRAW_CARD_DISCARD_START IN
       IF discardIndex + 1 \notin DOMAIN g.detectedStarSystems THEN DecodeThrows
       ELSE [move |-> "drawCard", args |-> <<1, g.detectedStarSystems[discardIndex + 1]>>]

decodeCollectResources(actionId, g) ==
  LET tokenSlot == actionId - COLLECT_RESOURCES_START
      currentHex == g.hexBoard[g.shipStatus.location]
  IN
  IF tokenSlot = 0
  THEN IF IsNull(currentHex.celestialBodyToken) THEN DecodeThrows
       ELSE [move |-> "collectResources", args |-> <<lookupKey(currentHex.celestialBodyToken)>>]
  ELSE IF "celestialBodyToken2" \in DOMAIN currentHex
       THEN IF IsNull(currentHex.celestialBodyToken2) THEN DecodeThrows
            ELSE [move |-> "collectResources",
                  args |-> <<lookupKey(currentHex.celestialBodyToken2)>>]
       ELSE DecodeThrows

decodeAction(actionId, g) ==
  IF actionId < 0 \/ actionId >= ACTION_SPACE_SIZE THEN DecodeThrows
  ELSE IF actionId <= MOVE_SHIP_END THEN decodeMoveShip(actionId, g)
  ELSE IF actionId >= PLAY_CARD_START /\ actionId <= PLAY_CARD_END THEN decodePlayCard(actionId, g)
  ELSE IF actionId = DRAW_CARD_NO_DISCARD THEN decodeDrawCard(actionId, g)
  ELSE IF actionId >= DRAW_CARD_DISCARD_START /\ actionId <= DRAW_CARD_DISCARD_END
       THEN decodeDrawCard(actionId, g)
  ELSE IF actionId >= COLLECT_RESOURCES_START /\ actionId <= COLLECT_RESOURCES_END
       THEN decodeCollectResources(actionId, g)
  ELSE IF actionId = PASS_ACTION THEN [move |-> "pass", args |-> <<>>]
  ELSE DecodeThrows

\* ------------------------------------------------------------------------
\* ActionEncoder.getValidActionMask
\* ------------------------------------------------------------------------
mustMoveShipOrPass(g) ==
  /\ g.playerRoleCards["0"].affectedAction = "moveShip"
  /\ g.currentTurnMoves >= 3
  /\ ~g.currentTurnMoveShipCalled

\* the moveShip mask without the distance > 0 test
MoveShipMaskWithCurrent(g, i) ==
  /\ g.shipStatus.energy > 1
  /\ LET distance == getDistance(HexCoords[g.shipStatus.location], HexCoords[hexKeys[i + 1]]) IN
     distance <= g.shipStatus.speed

\* 1. moveShip actions (0-168), i is the 0-based hex index
MoveShipMask(g, i) ==
  /\ g.shipStatus.energy > 1
  /\ LET distance == getDistance(HexCoords[g.shipStatus.location], HexCoords[hexKeys[i + 1]]) IN
     distance > 0 /\ distance <= g.shipStatus.speed

\* the playCard mask without the test of the token option index
PlayCardMaskAnyToken(g, cardIdx, tokenIdx) ==
  /\ ~mustMoveShipOrPass(g)
  /\ cardIdx < Min2(HandLimit, Len(g.detectedStarSystems))
  /\ CardData[g.detectedStarSystems[cardIdx + 1]].hexCoordinate = g.shipStatus.location

\* 2. playCard actions (169-188)
PlayCardMask(g, cardIdx, tokenIdx) ==
  /\ ~mustMoveShipOrPass(g)
  /\ cardIdx < Min2(HandLimit, Len(g.detectedStarSystems))
  /\ LET card == CardData[g.detectedStarSystems[cardIdx + 1]] IN
     /\ card.hexCoordinate = g.shipStatus.location
     /\ tokenIdx < getNumTokenOptions(card)

\* 3. drawCard actions (189-194): zone 1 is zoneDecks[2] here
DrawDeckAvailable(g) ==
  /\ ~mustMoveShipOrPass(g)
  /\ 2 \in DOMAIN g.zoneDecks
  /\ ~g.zoneDecks[2].isLocked
  /\ Len(g.zoneDecks[2].cards) > 0

DrawNoDiscardMask(g) == DrawDeckAvailable(g) /\ Len(g.detectedStarSystems) < HandLimit

\* the discard mask without the full-hand test
DrawDiscardMaskAnyHand(g, i) == DrawDeckAvailable(g)

DrawDiscardMask(g, i) == DrawDeckAvailable(g) /\ Len(g.detectedStarSystems) = HandLimit

\* 4. collectResources actions (195-196)
CollectMask(g, tokenSlot) ==
  /\ ~mustMoveShipOrPass(g)
  /\ LET hexCell == g.hexBoard[g.shipStatus.location] IN
     IF tokenSlot = 0 THEN ~IsNull(hexCell.celestialBodyToken)
     ELSE /\ "celestialBodyToken2" \in DOMAIN hexCell
          /\ ~IsNull(hexCell.celestialBodyToken2)

\* mask[id] for one action id
MaskAt(g, id) ==
  IF id <= MOVE_SHIP_END THEN MoveShipMask(g, id - MOVE_SHIP_START)
  ELSE IF id <= PLAY_CARD_END
       THEN PlayCardMask(g, (id - PLAY_CARD_START) \div 4, (id - PLAY_CARD_START) % 4)
  ELSE IF id = DRAW_CARD_NO_DISCARD THEN DrawNoDiscardMask(g)
  ELSE IF id <= DRAW_CARD_DISCARD_END THEN DrawDiscardMask(g, id - DRAW_CARD_DISCARD_START)
  ELSE IF id <= COLLECT_RESOURCES_END THEN CollectMask(g, id - COLLECT_RESOURCES_START)
  ELSE TRUE

getValidActionMask(g) == [id \in ActionIds |-> MaskAt(g, id)]

\* ------------------------------------------------------------------------
\* State
\* ------------------------------------------------------------------------
VARIABLES
  G,       \* boardgame.io G (LightsInTheVoidState)
  ctx,     \* boardgame.io ctx: turn, currentPlayer, numMoves, numPlayers, gameover
  config,  \* the module-level config object of Game.ts
  calls,   \* number of moves the game has executed so far
  query,   \* arguments of a findPath call under study: [from, to, maxSteps]
  path,    \* the directions that call returned (NoPath before the call)
  cardIcons,   \* celestialBodyIcons of a card whose token options are derived
  tokenLists,  \* the lists the two getCardTokenOptions returned (NoOptions before)
  games,       \* the games makeLightsInTheVoidGame created, in order of creation;
               \* G and ctx are the client state of games[1]
  decks,       \* the decks array games[1] closes over (setup pops from it)
  response     \* the last answer of the RL server (NoResponse before any request)

vars == <<G, ctx, config, calls, query, path, cardIcons, tokenLists, games, decks, response>>

\* ------------------------------------------------------------------------
\* Turn structure (turn.onBegin / onMove / onEnd, endIf, maxMoves)
\* ------------------------------------------------------------------------
TurnMaxMoves == 4

\* completeCurrentPhase with the player scores reset before they are summed
completeCurrentPhaseResetFirst(g, cfg) ==
  [g EXCEPT !.phasePointTotals = Append(@, 0),
            !.playerPoints = [p \in DOMAIN g.playerPoints |-> 0]]

\* completeCurrentPhase
completeCurrentPhase(g, cfg) ==
  [g EXCEPT
     !.phasePointTotals = Append(@, SumSeq([i \in 1..Cardinality(DOMAIN g.playerPoints) |->
                                              g.playerPoints[CHOOSE p \in DOMAIN g.playerPoints :
                                                               PlayerIndex(p) = i - 1]])),
     !.playerPoints = [p \in DOMAIN g.playerPoints |-> 0],
     !.hexBoard = [h \in HexNames |->
                     LET hex == g.hexBoard[h] IN
                     IF ~IsNull(hex.celestialBodyToken)
                        /\ lookupKey(hex.celestialBodyToken) \in DOMAIN cfg.tokenEffects
                        /\ cfg.tokenEffects[lookupKey(hex.celestialBodyToken)].numResearchTokens > 0
                     THEN [hex EXCEPT !.numResearchTokens =
                             cfg.tokenEffects[lookupKey(hex.celestialBodyToken)].numResearchTokens]
                     ELSE hex]]

\* turn.onEnd, G part
onEndG(g, c, cfg) ==
  LET g1 == IF c.turn % c.numPlayers = 0
            THEN [g EXCEPT !.shipStatus.numResearchTokens = @ + ((c.numPlayers + 1) \div 2)]
            ELSE g
      roundsCompleted == c.turn \div c.numPlayers
  IN IF roundsCompleted > 0 /\ roundsCompleted % ROUNDS_PER_PHASE = 0
     THEN completeCurrentPhase(g1, cfg) ELSE g1

\* turn.onEnd ending the game one turn after the turn limit
onEndGameoverLate(g, c, cfg, winThreshold) ==
  IF c.turn > cfg.maxTurns
  THEN LET cumulativePoints == SumSeq(g.phasePointTotals) IN
       IF cumulativePoints >= winThreshold
       THEN [playersWin |-> TRUE, finalScore |-> cumulativePoints]
       ELSE [playersLose |-> TRUE, finalScore |-> cumulativePoints]
  ELSE NULL

\* turn.onEnd, the events.endGame argument (NULL when the game goes on)
\* maxTurns is read from the module-level config, winThreshold from the
\* closure of the game
onEndGameover(g, c, cfg, winThreshold) ==
  IF c.turn >= cfg.maxTurns
  THEN LET cumulativePoints == SumSeq(g.phasePointTotals) IN
       IF cumulativePoints >= winThreshold
       THEN [playersWin |-> TRUE, finalScore |-> cumulativePoints]
       ELSE [playersLose |-> TRUE, finalScore |-> cumulativePoints]
  ELSE NULL

NextPlayer(c) ==
  CHOOSE p \in PlayerIDs(c.numPlayers) :
    PlayerIndex(p) = (PlayerIndex(c.currentPlayer) + 1) % c.numPlayers

\* what boardgame.io does with an accepted move: count it, run onMove, endIf,
\* and end the turn when onMove asked for it or maxMoves is reached
AfterMove(g, c, cfg, winThreshold) ==
  LET numMoves == c.numMoves + 1
      hasBonusMoveShipAction == g.playerRoleCards[c.currentPlayer].affectedAction = "moveShip"
      maxMoves == IF hasBonusMoveShipAction THEN 4 ELSE 3
      endTurn == g.currentTurnMoves >= maxMoves \/ numMoves >= TurnMaxMoves
  IN
  IF ShipDestroyed(g)
  THEN [G |-> g,
        ctx |-> [c EXCEPT !.numMoves = numMoves,
                          !.gameover = [playersLose |-> TRUE,
                                        finalScore |-> SumSeq(g.phasePointTotals)]]]
  ELSE IF endTurn
  THEN LET gEnd == onEndG(g, c, cfg)
           over == onEndGameover(gEnd, c, cfg, winThreshold)
       IN IF IsNull(over)
          THEN [G |-> [gEnd EXCEPT !.currentTurnMoves = 0, !.currentTurnMoveShipCalled = FALSE],
                ctx |-> [c EXCEPT !.turn = @ + 1, !.currentPlayer = NextPlayer(c),
                                  !.numMoves = 0]]
          ELSE [G |-> gEnd, ctx |-> [c EXCEPT !.numMoves = numMoves, !.gameover = over]]
  ELSE [G |-> g, ctx |-> [c EXCEPT !.numMoves = numMoves]]

\* a client.moves call: an accepted move advances the game, an INVALID_MOVE
\* or a thrown error leaves G and ctx as they were
applyMove(res) ==
  /\ IsNull(ctx.gameover)
  /\ IF res.status = "ok"
     THEN LET after == AfterMove(res.G, ctx, config, ParamsOf(games[1]).winThreshold) IN
          /\ G' = after.G
          /\ ctx' = after.ctx
          /\ calls' = calls + 1
     ELSE UNCHANGED <<G, ctx, calls>>
  /\ UNCHANGED <<config, query, path, cardIcons, tokenLists, games, decks, response>>

\* a move of an exploration of at most MaxCalls accepted moves
Dispatch(res) == calls < MaxCalls /\ applyMove(res)

\* ------------------------------------------------------------------------
\* Inputs of the moves
\* ------------------------------------------------------------------------
\* a direction sequence one longer than the ship's speed
TooLong(speed) == [i \in 1..(speed + 1) |-> "E"]
\* no step, one step west (A1) or north-east (C1), two steps east (D2, and
\* off the board after a few moves), a round trip, and a path that is too long
MoveInputs(speed) ==
  {<<>>, <<"W">>, <<"NE">>, <<"E", "E">>, <<"E", "W">>, TooLong(speed)}

KeyInputs ==
  {<<"red", "normal">>, <<"orange", "normal">>, <<"yellow", "normal">>, <<"white", "normal">>,
   <<"blue", "normal">>, <<"red", "giant">>, <<"whitedwarf">>, <<"planet">>,
   <<"red">>, <<"wormhole">>, <<"planet", "x">>}
ZoneInputs == 0..5
DiscardInputs == CardTitles \cup {NoTitle}

NoQuery == [from |-> HOME, to |-> HOME, maxSteps |-> 0]
NoPath == <<"none">>
NoOptions == [action |-> <<>>, state |-> <<>>, derived |-> FALSE]
NoResponse == [code |-> 0, error |-> "", action |-> -1, stepped |-> "none",
               done |-> FALSE, validActions |-> {}, reward |-> 0, finalReward |-> 0,
               state |-> <<>>]

\* GameSession.step: client.moves[moveName](...args)
step(g, cfg, c, m) ==
  CASE m.move = "moveShip" -> moveShip(g, m.args)
    [] m.move = "playCard" -> playCard(g, cfg, c.currentPlayer, m.args[1], m.args[2])
    [] m.move = "drawCard" ->
         drawCard(g, m.args[1], IF Len(m.args) >= 2 THEN m.args[2] ELSE NoTitle)
    [] m.move = "collectResources" -> collectResources(g, cfg, c.currentPlayer, m.args[1])
    [] m.move = "pass" -> pass(g)

\* ------------------------------------------------------------------------
\* Actions: the moves of the game
\* ------------------------------------------------------------------------
MoveShip ==
  \E dirs \in MoveInputs(G.shipStatus.speed) : Dispatch(moveShip(G, dirs))

DrawCard ==
  \E zoneNumber \in ZoneInputs, cardToDiscard \in DiscardInputs :
    Dispatch(drawCard(G, zoneNumber, cardToDiscard))

PlayCard ==
  \E cardTitle \in CardTitles, tokenToPlayKey \in KeyInputs :
    Dispatch(playCard(G, config, ctx.currentPlayer, cardTitle, tokenToPlayKey))

CollectResources ==
  \E tokenToCollectFromKey \in KeyInputs :
    Dispatch(collectResources(G, config, ctx.currentPlayer, tokenToCollectFromKey))

Pass == Dispatch(pass(G))

TopicInputs == {"Upgrade Sensors", "Upgrade Engines"}

DoResearch ==
  \E researchTopicName \in TopicInputs : Dispatch(doResearch(G, config, researchTopicName))

Init ==
  \E name \in DOMAIN GameParams :
    /\ config = MakeConfig(GameParams[name])
    /\ G = Setup(GameParams[name])
    /\ ctx = [turn |-> 1, currentPlayer |-> "0", numMoves |-> 0,
              numPlayers |-> GameParams[name].numPlayers, gameover |-> NULL]
    /\ calls = 0
    /\ query = NoQuery
    /\ path = NoPath
    /\ cardIcons = <<>>
    /\ tokenLists = NoOptions
    /\ games = <<name>>
    /\ decks = SetupDecks(GameParams[name].decks)
    /\ response = NoResponse

Next == MoveShip \/ DrawCard \/ PlayCard \/ CollectResources \/ DoResearch \/ Pass

Spec == Init /\ [][Next]_vars

\* ------------------------------------------------------------------------
\* A findPath call on its own: any two board cells, any step limit up to
\* MaxSteps, and the board diameter (no effective limit)
\* ------------------------------------------------------------------------
MaxSteps == 3
BoardDiameter == 2 * BoardRadius
StepInputs == (0..MaxSteps) \cup {BoardDiameter}

PathInit ==
  /\ config = MakeConfig(GameParams.simplified)
  /\ G = Setup(GameParams.simplified)
  /\ ctx = [turn |-> 1, currentPlayer |-> "0", numMoves |-> 0,
            numPlayers |-> 1, gameover |-> NULL]
  /\ calls = 0
  /\ query \in [from : HexNames, to : {HOME}, maxSteps : {0}]
  /\ path = NoPath
  /\ cardIcons = <<>>
  /\ tokenLists = NoOptions
  /\ games = <<"simplified">>
  /\ decks = SetupDecks(GameParams.simplified.decks)
  /\ response = NoResponse

FindPath ==
  /\ path = NoPath
  /\ \E to \in HexNames, maxSteps \in StepInputs :
       /\ query' = [query EXCEPT !.to = to, !.maxSteps = maxSteps]
       /\ path' = findPath(HexCoords[query.from], HexCoords[to], maxSteps)
  /\ UNCHANGED <<G, ctx, config, calls, cardIcons, tokenLists, games, decks, response>>

PathNext == FindPath

SpecPath == PathInit /\ [][PathNext]_vars

\* ------------------------------------------------------------------------
\* Properties
\* ------------------------------------------------------------------------
\* GameSession.isDone is false: moves are still taken
Playing == IsNull(ctx.gameover)

MoveShipIds == MOVE_SHIP_START..MOVE_SHIP_END
PlayCardIds == PLAY_CARD_START..PLAY_CARD_END
DrawCardIds == DRAW_CARD_NO_DISCARD..DRAW_CARD_DISCARD_END
DrawDiscardIds == DRAW_CARD_DISCARD_START..DRAW_CARD_DISCARD_END
CollectIds == COLLECT_RESOURCES_START..COLLECT_RESOURCES_END

\* the rule engine accepts and applies the decoded move m at the current position
Accepts(m) == step(G, config, ctx, m).status = "ok"

\* the mask of id agrees with the rule engine on the move id decodes to
MaskMatchesEngine(id) ==
  LET m == decodeAction(id, G) IN
  m.move # THROWS => (MaskAt(G, id) <=> Accepts(m))

\* C1: at every reachable position of a running game and for every movement
\* id 0..168, the mask is true exactly when moveShip accepts the direction
\* sequence decodeAction returns for that id.
C1_MoveMaskMatchesMoveShip ==
  Playing => \A id \in MoveShipIds : MaskMatchesEngine(id)

\* C2: in every configuration, at every reachable position of a running game
\* and for every play-card id 169..188 whose decode succeeds, the mask is true
\* exactly when playCard accepts and applies the decoded move.
C2_PlayMaskMatchesPlayCard ==
  Playing => \A id \in PlayCardIds : MaskMatchesEngine(id)

\* C3: at every reachable position of a running game and for every draw id
\* 189..194 whose decode succeeds, the mask is true exactly when drawCard
\* accepts the decoded move.
C3_DrawMaskMatchesDrawCard ==
  Playing => \A id \in DrawCardIds : MaskMatchesEngine(id)

\* C4: at every reachable position of a running game and for every collect id
\* 195..196 whose decode succeeds, the mask is true exactly when
\* collectResources accepts the decoded move.
C4_CollectMaskMatchesCollectResources ==
  Playing => \A id \in CollectIds : MaskMatchesEngine(id)

RoundTrips(m) ==
  LET res == step(G, config, ctx, m) IN
  res.status = "ok" =>
    LET id == encodeAction(m.move, m.args, G) IN
    /\ id \in ActionIds
    /\ LET decoded == decodeAction(id, G) IN
       decoded.move # THROWS /\ step(G, config, ctx, decoded) = res

\* C6: at every reachable position of a running game, every moveShip,
\* playCard, drawCard, collectResources or pass call the rule engine accepts
\* encodes to an id in 0..197 that decodes to a move with the same net effect.
C6_MoveRoundTrip ==
  Playing =>
    /\ \A dirs \in MoveInputs(G.shipStatus.speed) :
         RoundTrips([move |-> "moveShip", args |-> dirs])
    /\ \A cardTitle \in CardTitles, tokenToPlayKey \in KeyInputs :
         RoundTrips([move |-> "playCard", args |-> <<cardTitle, tokenToPlayKey>>])
    /\ \A zoneNumber \in ZoneInputs :
         /\ RoundTrips([move |-> "drawCard", args |-> <<zoneNumber>>])
         /\ \A cardToDiscard \in CardTitles :
              RoundTrips([move |-> "drawCard", args |-> <<zoneNumber, cardToDiscard>>])
    /\ \A tokenToCollectFromKey \in KeyInputs :
         RoundTrips([move |-> "collectResources", args |-> <<tokenToCollectFromKey>>])
    /\ RoundTrips([move |-> "pass", args |-> <<>>])

\* max(|dq|, |dr|, |ds|) between the ship's cell and the cell of movement id i
DistanceToId(i) ==
  LET a == HexCoords[G.shipStatus.location]
      b == HexCoords[hexKeys[i + 1]]
      ds == {Abs(a.q - b.q), Abs(a.r - b.r), Abs(a.s - b.s)}
  IN CHOOSE d \in ds : \A e \in ds : d >= e

C8_MaskImpliesDecodable ==
  \A id \in ActionIds : MaskAt(G, id) => decodeAction(id, G).move # THROWS

\* a position with fewer than five cards in hand where drawing is legal, so
\* that some discard ids cannot be decoded
C8_Witness ==
  /\ Len(G.detectedStarSystems) < HandLimit
  /\ MaskAt(G, DRAW_CARD_NO_DISCARD)
  /\ \E id \in DrawDiscardIds : decodeAction(id, G).move = THROWS

\* C9: for all board cells from and to and every step limit, findPath returns
\* exactly min(distance, maxSteps) directions; walking them from `from` stays
\* on the board and ends on `to` when distance <= maxSteps, and otherwise on
\* a cell at distance (distance - maxSteps) from `to`.
C9_PathValid ==
  path # NoPath =>
    LET from == HexCoords[query.from]
        to == HexCoords[query.to]
        distance == getDistance(from, to)
        end == WalkDirs(from, path)
    IN
    /\ Len(path) = Min2(distance, query.maxSteps)
    /\ ~IsNull(end)
    /\ distance <= query.maxSteps => end = to
    /\ distance > query.maxSteps => getDistance(end, to) = distance - query.maxSteps

\* a returned path cut short by a positive step limit
C9_Witness ==
  /\ path # NoPath
  /\ query.maxSteps > 0
  /\ getDistance(HexCoords[query.from], HexCoords[query.to]) > query.maxSteps
  /\ Len(path) = query.maxSteps

\* the id range of a move kind
IdRange(move) ==
  CASE move = "moveShip" -> 0..168
    [] move = "playCard" -> 169..188
    [] move = "drawCard" -> 189..194
    [] move = "collectResources" -> 195..196
    [] move = "pass" -> {197}

\* encodeAction, when it returns, returns an id in the range of the move kind
EncodesInRange(move, args) ==
  LET id == encodeAction(move, args, G) IN
  id = EncodeThrows \/ id \in IdRange(move)

\* C10: the id ranges 0..168, 169..188, 189, 190..194, 195..196 and 197 are
\* pairwise disjoint and cover 0..197; in every position playCard for hand
\* slot k and token option j encodes to 169 + 4*k + j, every id encodeAction
\* returns lies in the range of its move kind, and every id decodeAction
\* decodes gives a move of the kind of the range the id lies in.
C10_FixedLayout ==
  /\ LET ranges == <<0..168, 169..188, {189}, 190..194, 195..196, {197}>> IN
     /\ \A a, b \in DOMAIN ranges : a # b => ranges[a] \cap ranges[b] = {}
     /\ UNION {ranges[a] : a \in DOMAIN ranges} = 0..197
     /\ ranges = <<MoveShipIds, PlayCardIds, {DRAW_CARD_NO_DISCARD}, DrawDiscardIds,
                   CollectIds, {PASS_ACTION}>>
     /\ ActionIds = 0..197
  /\ \A k \in 0..4, j \in 0..3 :
       (k < Len(G.detectedStarSystems)
        /\ j < Len(getCardTokenOptions(CardData[G.detectedStarSystems[k + 1]]))) =>
         encodeAction("playCard",
                      <<G.detectedStarSystems[k + 1],
                        getCardTokenOptions(CardData[G.detectedStarSystems[k + 1]])[j + 1]>>,
                      G) = 169 + 4 * k + j
  /\ \A dirs \in MoveInputs(G.shipStatus.speed) : EncodesInRange("moveShip", dirs)
  /\ \A cardTitle \in CardTitles, tokenToPlayKey \in KeyInputs :
       EncodesInRange("playCard", <<cardTitle, tokenToPlayKey>>)
  /\ \A zoneNumber \in ZoneInputs :
       /\ EncodesInRange("drawCard", <<zoneNumber>>)
       /\ \A cardToDiscard \in CardTitles :
            EncodesInRange("drawCard", <<zoneNumber, cardToDiscard>>)
  /\ \A tokenToCollectFromKey \in KeyInputs :
       EncodesInRange("collectResources", <<tokenToCollectFromKey>>)
  /\ EncodesInRange("pass", <<>>)
  /\ \A id \in ActionIds :
       LET m == decodeAction(id, G) IN
       m.move # THROWS => id \in IdRange(m.move)

\* a position after some move with a card played, a full hand again, and the
\* ship on a cell holding a token: ids of every kind encode and decode
C10_Witness ==
  /\ calls > 0
  /\ Len(G.playedCards) > 1
  /\ Len(G.detectedStarSystems) = HandLimit
  /\ ~IsNull(G.hexBoard[G.shipStatus.location].celestialBodyToken)

\* every cube coordinate within distance 7 of the origin
Ball ==
  {c \in [q : -BoardRadius..BoardRadius, r : -BoardRadius..BoardRadius,
          s : -BoardRadius..BoardRadius] :
     c.q + c.r + c.s = 0}

\* the cells of generateHexes are the 169 coordinates of the ball, one each
GeneratedBoardIsBall ==
  /\ Cardinality(DOMAIN generateHexes) = 169
  /\ DOMAIN generateHexes =
       {HOME} \cup {<<l, i>> : l \in {"A", "B", "C", "D", "E", "F"}, i \in 1..28}
  /\ Len(hexKeys) = 169
  /\ \A h \in DOMAIN generateHexes :
       LET c == generateHexes[h] IN
       /\ c.q + c.r + c.s = 0
       /\ getDistance(generateHexes[HOME], c) <= 7
       /\ \A g \in DOMAIN generateHexes : g # h => generateHexes[g] # c
       /\ CoordKey(c) \in DOMAIN reverseHexBoard
       /\ reverseHexBoard[CoordKey(c)] = h
  /\ \A c \in Ball :
       Cardinality({h \in DOMAIN generateHexes : generateHexes[h] = c}) = 1

\* C11: generateHexes yields exactly 169 cells, HOME and A1..F28, with
\* pairwise distinct cube coordinates that sum to zero and lie within
\* distance 7 of HOME; every coordinate within distance 7 of the origin is the
\* coordinate of exactly one cell; reverseHexBoard maps each cell's coordinate
\* key back to the cell's name; the board of every game is this set of cells.
C11_BoardGeneration ==
  /\ DOMAIN G.hexBoard = DOMAIN generateHexes
  /\ G.shipStatus.location \in DOMAIN generateHexes
  /\ GeneratedBoardIsBall

\* a game whose ship was moved to an outer cell through the reverse lookup
C11_Witness ==
  /\ G.shipStatus.location # HOME
  /\ getDistance(Origin, HexCoords[G.shipStatus.location]) >= 4
  /\ ReverseLookup(HexCoords[G.shipStatus.location]) = G.shipStatus.location

\* the derived token options of a card before the cut, and the first four
DerivedOptions(card) == ExpandIcons(card.celestialBodyIcons, <<>>)
FirstFour(options) == {options[i] : i \in 1..Min2(4, Len(options))}

\* C12: for every hand slot k, every play-card id 169 + 4*k + j whose option
\* index j is not below the number of derived options of the card (at most 4)
\* is masked false, and encodeAction of playCard with a token key that is not
\* among the card's first four derived options throws.
C12_TokenOptionCap ==
  \A k \in 0..4 :
    k < Len(G.detectedStarSystems) =>
      LET card == CardData[G.detectedStarSystems[k + 1]]
          options == DerivedOptions(card)
      IN
      /\ \A j \in 0..3 :
           j >= Min2(4, Len(options)) => ~MaskAt(G, 169 + 4 * k + j)
      /\ \A tokenKey \in KeyInputs :
           tokenKey \notin FirstFour(options) =>
             encodeAction("playCard", <<card.title, tokenKey>>, G) = EncodeThrows

\* the ship is on the cell of a hand card with fewer than four options, one
\* of them marked legal, while the hand holds a card with more than four
C12_Witness ==
  /\ calls > 0
  /\ \E k \in 0..4 :
       /\ k < Len(G.detectedStarSystems)
       /\ Len(DerivedOptions(CardData[G.detectedStarSystems[k + 1]])) < 4
       /\ MaskAt(G, 169 + 4 * k)
  /\ \E k \in 0..4 :
       /\ k < Len(G.detectedStarSystems)
       /\ Len(DerivedOptions(CardData[G.detectedStarSystems[k + 1]])) > 4

\* ------------------------------------------------------------------------
\* The two getCardTokenOptions on their own: any icon list of at most
\* MaxIcons icons drawn from IconInputs
\* ------------------------------------------------------------------------
MaxIcons == 3
IconInputs ==
  {Body("any"), Star("red", "normal"), Star("blue", "normal"), Star("red", "giant"),
   Body("planet"), Body("whitedwarf")}

RECURSIVE IconLists(_)
IconLists(n) ==
  IF n = 0 THEN {<<>>}
  ELSE LET shorter == IconLists(n - 1) IN
       shorter \cup {Append(l, i) : l \in {x \in shorter : Len(x) = n - 1}, i \in IconInputs}

OptionsInit ==
  /\ config = MakeConfig(GameParams.simplified)
  /\ G = Setup(GameParams.simplified)
  /\ ctx = [turn |-> 1, currentPlayer |-> "0", numMoves |-> 0,
            numPlayers |-> 1, gameover |-> NULL]
  /\ calls = 0
  /\ query = NoQuery
  /\ path = NoPath
  /\ cardIcons \in IconLists(MaxIcons)
  /\ tokenLists = NoOptions
  /\ games = <<"simplified">>
  /\ decks = SetupDecks(GameParams.simplified.decks)
  /\ response = NoResponse

DeriveOptions ==
  /\ ~tokenLists.derived
  /\ tokenLists' = [action |-> getCardTokenOptions([celestialBodyIcons |-> cardIcons]),
                 state |-> StateEncoderGetCardTokenOptions([celestialBodyIcons |-> cardIcons]),
                 derived |-> TRUE]
  /\ UNCHANGED <<G, ctx, config, calls, query, path, cardIcons, games, decks, response>>

OptionsNext == DeriveOptions

SpecOptions == OptionsInit /\ [][OptionsNext]_vars

\* the keys an icon stands for: the five normal star colours for 'any'
IconKeys(icon) ==
  IF icon.type = "any"
  THEN <<<<"red", "normal">>, <<"orange", "normal">>, <<"yellow", "normal">>,
         <<"white", "normal">>, <<"blue", "normal">>>>
  ELSE IF "size" \in DOMAIN icon THEN <<<<icon.type, icon.size>>>> ELSE <<<<icon.type>>>>

RECURSIVE Flatten(_)
Flatten(iconList) ==
  IF iconList = <<>> THEN <<>> ELSE IconKeys(Head(iconList)) \o Flatten(Tail(iconList))

\* the first occurrences of the keys of flat, in order, cut to four
FirstFourDistinct(flat) ==
  LET keep == {i \in 1..Len(flat) : \A j \in 1..(i - 1) : flat[j] # flat[i]}
      nth(n) == CHOOSE i \in keep : Cardinality({j \in keep : j < i}) = n - 1
  IN [n \in 1..Min2(4, Cardinality(keep)) |-> flat[nth(n)]]

\* C13: for every card, ActionEncoder.getCardTokenOptions and
\* StateEncoder.getCardTokenOptions return the same list; it has no
\* duplicates, keeps the order of the icons with 'any' expanded to red,
\* orange, yellow, white, blue (normal size), and is cut to its first four.
C13_OneTokenOptionDerivation ==
  tokenLists.derived =>
    /\ tokenLists.action = tokenLists.state
    /\ \A i, j \in 1..Len(tokenLists.action) : i # j => tokenLists.action[i] # tokenLists.action[j]
    /\ Len(tokenLists.action) <= 4
    /\ tokenLists.action = FirstFourDistinct(Flatten(cardIcons))

\* a derivation for a card with an 'any' icon after another star icon: more
\* than four distinct keys, cut to four
C13_Witness ==
  /\ tokenLists.derived
  /\ Len(cardIcons) >= 2
  /\ cardIcons[1].type # "any"
  /\ \E i \in 2..Len(cardIcons) : cardIcons[i].type = "any"
  /\ Len(tokenLists.state) = 4

\* ------------------------------------------------------------------------
\* StateEncoder.encodeState.  A feature is the fraction the code computes,
\* kept as numerator n over denominator d (d > 0).
\* ------------------------------------------------------------------------
FEATURE_SIZE == 128
NUM_TOKEN_TYPES == 24
MAX_BOARD_DISTANCE == 14
MAX_ENERGY_EFFECT == 12
MAX_ARMOR_EFFECT == 10

Frac(n, d) == [n |-> n, d |-> d]

\* TOKEN_TYPE_ORDER of StateEncoder.ts, in its order
TokenTypeList ==
  <<<<"blackhole", "giant">>, <<"blackhole", "normal">>, <<"blue", "giant">>,
    <<"blue", "normal">>, <<"blue", "supergiant">>, <<"browndwarf">>,
    <<"nebula", "giant">>, <<"nebula", "normal">>, <<"nebula", "supergiant">>,
    <<"neutronstar">>, <<"orange", "giant">>, <<"orange", "normal">>,
    <<"orange", "supergiant">>, <<"planet">>, <<"red", "giant">>, <<"red", "normal">>,
    <<"red", "supergiant">>, <<"white", "giant">>, <<"white", "normal">>,
    <<"white", "supergiant">>, <<"whitedwarf">>, <<"yellow", "giant">>,
    <<"yellow", "normal">>, <<"yellow", "supergiant">>>>

\* this.tokenTypeIndex.get(key) || 0
tokenTypeIndex(key) == IndexOf(TokenTypeList, key) + 1

\* Object.keys(hexBoard): HOME, A1..A28, ..., F1..F28 (insertion order)
HexKeyOrder ==
  [i \in 1..(1 + 6 * HexesPerSector) |->
     IF i = 1 THEN HOME
     ELSE <<SectorLetters[((i - 2) \div HexesPerSector) + 1], ((i - 2) % HexesPerSector) + 1>>]

\* the token keys of a cell, first token then second token
CellTokenKeys(hex) ==
  (IF ~IsNull(hex.celestialBodyToken) THEN <<lookupKey(hex.celestialBodyToken)>> ELSE <<>>)
  \o (IF "celestialBodyToken2" \in DOMAIN hex /\ ~IsNull(hex.celestialBodyToken2)
      THEN <<lookupKey(hex.celestialBodyToken2)>> ELSE <<>>)

RECURSIVE nearestOf(_, _, _)
\* the scan of computeTokenDistances over the distances of the cells that
\* hold the token type, in key order: a stored 0 counts as "not found"
nearestOf(dists, i, currentDist) ==
  IF i > Len(dists) THEN currentDist
  ELSE nearestOf(dists, i + 1,
                 IF currentDist = 0 \/ dists[i] < currentDist THEN dists[i] ELSE currentDist)

\* StateEncoder.computeTokenDistances, as the list of the 24 distances
computeTokenDistances(g) ==
  LET shipCoords == HexCoords[g.shipStatus.location]
      tokenCells == SelectSeq(HexKeyOrder, LAMBDA h : CellTokenKeys(g.hexBoard[h]) # <<>>)
      has(h, key) == \E k \in 1..Len(CellTokenKeys(g.hexBoard[h])) :
                       CellTokenKeys(g.hexBoard[h])[k] = key
      distsOf(key) ==
        LET cells == SelectSeq(tokenCells, LAMBDA h : has(h, key)) IN
        [k \in 1..Len(cells) |-> getDistance(shipCoords, HexCoords[cells[k]])]
  IN [t \in 1..NUM_TOKEN_TYPES |-> nearestOf(distsOf(TokenTypeList[t]), 1, 0)]

\* the ten features of a hand slot
cardFeatures(g, slotIdx) ==
  IF slotIdx > Len(g.detectedStarSystems) THEN [i \in 1..10 |-> Frac(0, 1)]
  ELSE LET card == CardData[g.detectedStarSystems[slotIdx]]
           shipCoords == HexCoords[g.shipStatus.location]
           cardHex == HexCoords[card.hexCoordinate]
           tokenOptions == StateEncoderGetCardTokenOptions(card)
       IN
       <<Frac(1, 1), Frac(cardHex.q, BoardRadius), Frac(cardHex.r, BoardRadius),
         Frac(cardHex.s, BoardRadius),
         Frac(getDistance(shipCoords, cardHex), MAX_BOARD_DISTANCE),
         Frac(card.zoneNumber * 2 - 1, 7)>>
       \o [tokenIdx \in 1..4 |->
             IF tokenIdx <= Len(tokenOptions)
             THEN Frac(tokenTypeIndex(tokenOptions[tokenIdx]), NUM_TOKEN_TYPES)
             ELSE Frac(0, 1)]

\* features[0] = state.ctx.turn / 4
encodeRound(c) == Frac(c.turn, 4)

\* encodeState with the token effects the server loads from
\* celestial_body_token_types.json
encodeState(g, c) ==
  LET ship == g.shipStatus
      shipCoords == HexCoords[ship.location]
      tokenDistances == computeTokenDistances(g)
      currentHex == g.hexBoard[ship.location]
      hasToken == ~IsNull(currentHex.celestialBodyToken)
      tokenKey == IF hasToken THEN lookupKey(currentHex.celestialBodyToken) ELSE NoKey
      known == hasToken /\ tokenKey \in DOMAIN LoadedTokenEffects
      energyEffect == IF known THEN LoadedTokenEffects[tokenKey].energyChange ELSE 0
      armorEffect == IF known THEN LoadedTokenEffects[tokenKey].armorChange ELSE 0
      hasSecondToken == /\ "celestialBodyToken2" \in DOMAIN currentHex
                        /\ ~IsNull(currentHex.celestialBodyToken2)
  IN
  <<encodeRound(c), Frac(g.currentTurnMoves, 3), Frac(ship.energy, ship.maxEnergy),
    Frac(ship.armor, ship.maxArmor), Frac(shipCoords.q, BoardRadius),
    Frac(shipCoords.r, BoardRadius), Frac(shipCoords.s, BoardRadius),
    Frac(g.playerPoints["0"], 20)>>
  \o cardFeatures(g, 1) \o cardFeatures(g, 2) \o cardFeatures(g, 3)
  \o cardFeatures(g, 4) \o cardFeatures(g, 5)
  \o [t \in 1..NUM_TOKEN_TYPES |-> Frac(tokenDistances[t], MAX_BOARD_DISTANCE)]
  \o <<Frac(IF hasToken THEN 1 ELSE 0, 1), Frac(energyEffect, MAX_ENERGY_EFFECT),
       Frac(armorEffect, MAX_ARMOR_EFFECT), Frac(IF hasSecondToken THEN 1 ELSE 0, 1)>>
  \o [i \in 1..(FEATURE_SIZE - 86) |-> Frac(0, 1)]

\* ------------------------------------------------------------------------
\* The RL server (server/index.ts) over a GameSession: POST /reset,
\* POST /step and GET /state.  gameSession is null until the first reset,
\* which is the state games = <<>>.
\* ------------------------------------------------------------------------
MaxPosts == 6

\* the action ids a caller posts: one below and one above the range, a move
\* to A1, D2 and HOME, the first play slot, the draws without and with a
\* discard, the two collect slots and pass
PostedIds ==
  {-1, ACTION_SPACE_SIZE, HexKeysIndexOf(<<"A", 1>>), HexKeysIndexOf(<<"D", 2>>), HexKeysIndexOf(HOME),
   PLAY_CARD_START, DRAW_CARD_NO_DISCARD, DRAW_CARD_DISCARD_START,
   COLLECT_RESOURCES_START, COLLECT_RESOURCES_END, PASS_ACTION}

\* ActionEncoder.getValidActions
getValidActions(g) == {id \in ActionIds : MaskAt(g, id)}

ErrorResponse(code, error, action) ==
  [code |-> code, error |-> error, action |-> action, stepped |-> "none",
   done |-> FALSE, validActions |-> {}, reward |-> 0, finalReward |-> 0,
   state |-> <<>>]

ServerInit ==
  /\ G = NULL
  /\ ctx = NULL
  /\ config = NULL
  /\ calls = 0
  /\ query = NoQuery
  /\ path = NoPath
  /\ cardIcons = <<>>
  /\ tokenLists = NoOptions
  /\ games = <<>>
  /\ decks = <<>>
  /\ response = NoResponse

\* POST /reset: the first request creates the simplified game and its
\* session; every request builds a new client, whose constructor runs setup
\* on the decks the game closes over.  When setup throws the request is
\* answered with 500 and the session keeps the client it had.
PostReset ==
  LET first == games = <<>>
      closureDecks == IF first THEN GameParams.simplified.decks ELSE decks
  IN
  /\ games' = IF first THEN <<"simplified">> ELSE games
  /\ config' = IF first THEN MakeConfig(GameParams.simplified) ELSE config
  /\ IF SetupThrows(closureDecks)
     THEN /\ response' = ErrorResponse(500, "TypeError", -1)
          /\ decks' = closureDecks
          /\ UNCHANGED <<G, ctx, calls>>
     ELSE LET g == Setup([GameParams.simplified EXCEPT !.decks = closureDecks])
              c == [turn |-> 1, currentPlayer |-> "0", numMoves |-> 0, numPlayers |-> 1,
                    gameover |-> NULL]
          IN
          /\ G' = g
          /\ ctx' = c
          /\ calls' = 0
          /\ decks' = SetupDecks(closureDecks)
          /\ response' = [code |-> 200, error |-> "", action |-> -1, stepped |-> "none",
                          done |-> FALSE, validActions |-> getValidActions(g),
                          reward |-> 0, finalReward |-> 0, state |-> encodeState(g, c)]
  /\ UNCHANGED <<query, path, cardIcons, tokenLists>>

\* the answer to an id that decodeAction throws on
InvalidActionAccepted(action) ==
  [code |-> 200, error |-> "", action |-> action, stepped |-> "none",
   done |-> FALSE, validActions |-> {}, reward |-> 0, finalReward |-> 0,
   state |-> <<>>]
InvalidAction(action) == ErrorResponse(400, "Invalid action", action)

\* GameSession.step: false when the game is over, true unless the move
\* function throws
stepReturnsWhenOver(c, res) == res.status # THROWS
stepReturns(c, res) ==
  IF ~IsNull(c.gameover) THEN FALSE ELSE res.status # THROWS

\* GameSession.getReward: player 0's score
getReward(g) == g.playerPoints["0"]

\* POST /step: the reward is the change in score
stepRewardWithCost(prevReward, newReward) == newReward - prevReward - 1
stepReward(prevReward, newReward) == newReward - prevReward

DEATH_PENALTY == 50

\* POST /step.  The fields reward and finalReward of the response record the
\* handler's locals of the same names; the JSON answer carries finalReward.
stepHandler(action) ==
  /\ IF IsNull(G)
     THEN /\ response' = ErrorResponse(400, "Game not initialized. Call /reset first.", action)
          /\ UNCHANGED <<G, ctx, calls>>
     ELSE LET decoded == decodeAction(action, G) IN
          IF decoded.move = THROWS
          THEN /\ response' = InvalidAction(action)
               /\ UNCHANGED <<G, ctx, calls>>
          ELSE LET res == IF IsNull(ctx.gameover) THEN step(G, config, ctx, decoded)
                          ELSE Invalid
                   success == stepReturns(ctx, res)
                   after == IF res.status = "ok"
                            THEN AfterMove(res.G, ctx, config,
                                           GameParams[games[1]].winThreshold)
                            ELSE [G |-> G, ctx |-> ctx]
                   done == ~IsNull(after.ctx.gameover)
                   reward == stepReward(getReward(G), getReward(after.G))
                   finalReward == IF done /\ "playersLose" \in DOMAIN after.ctx.gameover
                                  THEN reward - DEATH_PENALTY ELSE reward
               IN
               /\ G' = after.G
               /\ ctx' = after.ctx
               /\ calls' = IF res.status = "ok" THEN calls + 1 ELSE calls
               /\ response' =
                    IF ~success
                    THEN [ErrorResponse(400, "Invalid move (game rejected it)", action)
                            EXCEPT !.stepped = "false"]
                    ELSE [code |-> 200, error |-> "", action |-> action, stepped |-> "true",
                          done |-> done,
                          validActions |-> IF done THEN {} ELSE getValidActions(after.G),
                          reward |-> reward, finalReward |-> finalReward,
                          state |-> encodeState(after.G, after.ctx)]
  /\ UNCHANGED <<config, query, path, cardIcons, tokenLists, games, decks>>

\* a POST /step request, while the bound on accepted moves allows it
PostStep(action) == calls < MaxPosts /\ stepHandler(action)

\* GET /state
GetState ==
  /\ IF IsNull(G)
     THEN response' = ErrorResponse(400, "Game not initialized. Call /reset first.", -1)
     ELSE LET done == ~IsNull(ctx.gameover) IN
          response' = [code |-> 200, error |-> "", action |-> -1, stepped |-> "none",
                       done |-> done,
                       validActions |-> IF done THEN {} ELSE getValidActions(G),
                       reward |-> 0, finalReward |-> 0, state |-> encodeState(G, ctx)]
  /\ UNCHANGED <<G, ctx, config, calls, query, path, cardIcons, tokenLists, games, decks>>

ServerNext == PostReset \/ (\E action \in PostedIds : PostStep(action)) \/ GetState

SpecServer == ServerInit /\ [][ServerNext]_vars

\* C14: decodeAction throws for every id below 0 or above 197, and a
\* POST /step carrying such an id, or any id whose decode fails in the
\* current position, is answered with an error response while the game
\* state of the session stays exactly as it was.
C14_InvalidIdsRejected ==
  /\ [](~IsNull(G) =>
          \A id \in (-3..-1) \cup (ACTION_SPACE_SIZE..(ACTION_SPACE_SIZE + 2)) :
            decodeAction(id, G).move = THROWS)
  /\ [][\A action \in PostedIds :
          (~IsNull(G) /\ decodeAction(action, G).move = THROWS /\ PostStep(action))
            => /\ response'.code >= 400
               /\ response'.action = action
               /\ G' = G
               /\ ctx' = ctx]_vars

\* an id inside the range was posted after some moves, its decode failed in
\* that position and the request was answered with 400
C14_Witness ==
  /\ calls > 0
  /\ response.code = 400
  /\ response.error = "Invalid action"
  /\ response.action \in ActionIds
  /\ decodeAction(response.action, G).move = THROWS

\* the fields of G that turn.onEnd and turn.onBegin write
TurnEndFields ==
  {"shipStatus", "phasePointTotals", "playerPoints", "hexBoard",
   "currentTurnMoves", "currentTurnMoveShipCalled"}

\* C15 as stated: in every position getValidActionMask(p)[197] is true, and
\* the rule engine accepts pass in every non-terminal position without
\* changing the game state G.
C15_PassNeverChangesG ==
  /\ [](Playing => MaskAt(G, PASS_ACTION) /\ pass(G).status = "ok")
  /\ [][Pass => calls' = calls + 1 /\ G' = G]_vars

\* C15, amended: the mask always offers pass and the engine accepts it in
\* every non-terminal position; G is unchanged unless the pass is the fourth
\* move of the turn, and then only the turn hooks change G: the ship keeps
\* its location, energy and armor, and the hand, the decks and the played
\* cards stay as they were.
C15_PassChangesGOnlyAtTurnEnd ==
  /\ [](Playing => MaskAt(G, PASS_ACTION) /\ pass(G).status = "ok")
  /\ [][Pass =>
          /\ calls' = calls + 1
          /\ IF ctx.numMoves + 1 < TurnMaxMoves
             THEN G' = G /\ ctx'.turn = ctx.turn /\ ctx'.numMoves = ctx.numMoves + 1
             ELSE /\ ctx'.turn = ctx.turn + 1 \/ ~IsNull(ctx'.gameover)
                  /\ \A f \in (DOMAIN G) \ TurnEndFields : G'[f] = G[f]
                  /\ [G'.shipStatus EXCEPT !.numResearchTokens = 0]
                       = [G.shipStatus EXCEPT !.numResearchTokens = 0]]_vars

\* four passes in the first turn of the one-player game: the turn has ended,
\* the ship has not moved, nothing was drawn, and the passive research token
\* of the round was awarded
C15_Witness ==
  /\ calls = 4
  /\ ctx.numPlayers = 1
  /\ ctx.turn = 2
  /\ G.shipStatus.energy = 5
  /\ G.zoneDecks = decks
  /\ G.shipStatus.numResearchTokens = 1

\* ------------------------------------------------------------------------
\* ai.enumerate: the move list the search is given
\* ------------------------------------------------------------------------
calculateTotalCardPoints(card, g) ==
  LET pointsPerPlayer == calculateCardPointsPerPlayer(card, "0", g.playerItineraryCards)
      players == DOMAIN pointsPerPlayer
  IN SumSeq([i \in 1..Cardinality(players) |->
               pointsPerPlayer[CHOOSE p \in players : PlayerIndex(p) = i - 1]])

\* cards of the hand with the maximal points, or with an icon that awards
\* research tokens
findHighestValueTargets(g) ==
  LET cards == g.detectedStarSystems
      points(title) == calculateTotalCardPoints(CardData[title], g)
      hasResearchTokenIcons(title) ==
        \E i \in 1..Len(CardData[title].celestialBodyIcons) :
          CardData[title].celestialBodyIcons[i].type
            \in {"browndwarf", "whitedwarf", "nebula", "neutronstar", "blackhole"}
      isTarget(title) ==
        (\A j \in 1..Len(cards) : points(cards[j]) <= points(title))
          \/ hasResearchTokenIcons(title)
  IN SelectSeq(cards, isTarget)

\* the card of the hand with the least points (NoTitle for an empty hand);
\* among equals the one farthest from the ship, the first of those in hand
findLowestValueTarget(g) ==
  LET cards == g.detectedStarSystems
      points(i) == calculateTotalCardPoints(CardData[cards[i]], g)
      far(i) == getDistance(HexCoords[g.shipStatus.location],
                            HexCoords[CardData[cards[i]].hexCoordinate])
      lowest == {i \in 1..Len(cards) : \A j \in 1..Len(cards) : points(i) <= points(j)}
  IN IF cards = <<>> THEN NoTitle
     ELSE cards[CHOOSE i \in lowest :
                  \A j \in lowest : far(j) < far(i) \/ (far(j) = far(i) /\ i <= j)]

isOnTheWay(currentCoords, cardACoords, cardBCoords, shipSpeed) ==
  getDistance(currentCoords, cardACoords) + getDistance(cardACoords, cardBCoords)
    <= getDistance(currentCoords, cardBCoords) + 2 * shipSpeed

canReachSafely(currentCoords, targetCoords, g) ==
  (g.shipStatus.energy - 1) * g.shipStatus.speed >= getDistance(currentCoords, targetCoords)

RECURSIVE greedyPath(_, _, _)
\* the while loop that builds a path of stepsLeft directions towards
\* targetCoords: at each step the first direction, in the order of
\* DIRECTIONS, whose neighbour is on the board and nearest to the target
greedyPath(currentPos, targetCoords, stepsLeft) ==
  IF stepsLeft <= 0 THEN <<>>
  ELSE LET onBoard == {i \in 1..6 : ~IsNull(getNeighborCoords(currentPos, DirOrder[i]))}
           dist(i) == getDistance(AddDir(currentPos, DirOrder[i]), targetCoords)
       IN IF onBoard = {} THEN <<>>
          ELSE LET best == CHOOSE i \in onBoard :
                             /\ \A j \in onBoard : dist(i) <= dist(j)
                             /\ \A j \in onBoard : j < i => dist(j) > dist(i)
               IN <<DirOrder[best]>>
                    \o greedyPath(AddDir(currentPos, DirOrder[best]), targetCoords, stepsLeft - 1)

enumerate(g, c, cfg) ==
  LET currentPlayerRole == g.playerRoleCards[c.currentPlayer]
      mustMove == /\ currentPlayerRole.affectedAction = "moveShip"
                  /\ g.currentTurnMoves >= 3
                  /\ ~g.currentTurnMoveShipCalled
      hand == g.detectedStarSystems
      status == g.shipStatus
      currentLocation == g.hexBoard[status.location]
      currentCoords == HexCoords[status.location]
      coordsOf(title) == HexCoords[CardData[title].hexCoordinate]
      Move(name, args) == [move |-> name, args |-> args]
      \* 1. playCard: every icon key of every card of the hand at the ship's cell
      iconKeys(icon) ==
        IF icon.type = "any"
        THEN [i \in 1..Len(AnyConcreteTypes) |-> <<AnyConcreteTypes[i], "normal">>]
        ELSE <<lookupKey(TokenOfIcon(icon))>>
      cardKeys(title) ==
        LET icons == CardData[title].celestialBodyIcons
            keysUpTo[n \in 0..Len(icons)] ==
              IF n = 0 THEN <<>> ELSE PushAll(keysUpTo[n - 1], iconKeys(icons[n]))
        IN keysUpTo[Len(icons)]
      playUpTo[n \in 0..Len(hand)] ==
        IF n = 0 THEN <<>>
        ELSE IF CardData[hand[n]].hexCoordinate = status.location
                /\ \A j \in 1..(n - 1) : hand[j] # hand[n]
             THEN playUpTo[n - 1]
                    \o [k \in 1..Len(cardKeys(hand[n])) |->
                          Move("playCard", <<hand[n], cardKeys(hand[n])[k]>>)]
             ELSE playUpTo[n - 1]
      playMoves == IF mustMove THEN <<>> ELSE playUpTo[Len(hand)]
      \* 2. moveShip: one greedy path per final target, without duplicates
      isSafe(title) == canReachSafely(currentCoords, coordsOf(title), g)
      safeTargets == SelectSeq(findHighestValueTargets(g), isSafe)
      isSafeTarget(title) == \E i \in 1..Len(safeTargets) : safeTargets[i] = title
      isOnWay(title) ==
        /\ \E i \in 1..Len(safeTargets) :
             isOnTheWay(currentCoords, coordsOf(title), coordsOf(safeTargets[i]), status.speed)
        /\ ~isSafeTarget(title)
      onTheWayCards == SelectSeq(hand, isOnWay)
      finalTargets == IF Len(onTheWayCards) > 0 THEN onTheWayCards ELSE safeTargets
      pathTo(title) ==
        greedyPath(currentCoords, coordsOf(title),
                   Min2(getDistance(currentCoords, coordsOf(title)), status.speed))
      pathsUpTo[n \in 0..Len(finalTargets)] ==
        IF n = 0 THEN <<>>
        ELSE IF pathTo(finalTargets[n]) = <<>> THEN pathsUpTo[n - 1]
             ELSE PushUnique(pathsUpTo[n - 1], pathTo(finalTargets[n]))
      paths == IF status.energy > 1 /\ Len(safeTargets) > 0
               THEN pathsUpTo[Len(finalTargets)] ELSE <<>>
      shipMoves == [i \in 1..Len(paths) |-> Move("moveShip", paths[i])]
      \* 3. drawCard: every unlocked deck that has a card
      canDraw(z) == ~g.zoneDecks[z].isLocked /\ Len(g.zoneDecks[z].cards) > 0
      zones == SelectSeq([z \in 1..Len(g.zoneDecks) |-> z], canDraw)
      drawMoves ==
        IF mustMove THEN <<>>
        ELSE [i \in 1..Len(zones) |->
                Move("drawCard",
                     IF Len(hand) < 5 THEN <<zones[i] - 1>>
                     ELSE <<zones[i] - 1, findLowestValueTarget(g)>>)]
      \* 4. collectResources: a token of the ship's cell with a useful effect
      useful(key, bonus) ==
        /\ key \in DOMAIN cfg.tokenEffects
        /\ LET effects == cfg.tokenEffects[key] IN
           \/ status.armor < status.maxArmor /\ effects.armorChange > 0
           \/ /\ status.energy < status.maxEnergy
              /\ effects.energyChange > 0
              /\ status.armor + effects.armorChange + bonus >= 1
           \/ effects.numResearchTokens > 0
      hasArmorBonus(key) ==
        /\ currentPlayerRole.affectedAction = "collectResources"
        /\ "bonusResourceType" \in DOMAIN currentPlayerRole
        /\ currentPlayerRole.bonusResourceType = "armor"
        /\ cfg.tokenEffects[key].armorChange # 0
      firstKey == lookupKey(currentLocation.celestialBodyToken)
      collectFirst ==
        IF ~IsNull(currentLocation.celestialBodyToken)
           /\ firstKey \in DOMAIN cfg.tokenEffects
           /\ useful(firstKey, IF hasArmorBonus(firstKey) THEN 1 ELSE 0)
        THEN <<Move("collectResources", <<firstKey>>)>> ELSE <<>>
      collectSecond ==
        IF "celestialBodyToken2" \in DOMAIN currentLocation
           /\ ~IsNull(currentLocation.celestialBodyToken2)
           /\ useful(lookupKey(currentLocation.celestialBodyToken2), 0)
        THEN <<Move("collectResources", <<lookupKey(currentLocation.celestialBodyToken2)>>)>>
        ELSE <<>>
      collectMoves == IF mustMove THEN <<>> ELSE collectFirst \o collectSecond
      \* 5. doResearch: every topic the ship can pay for
      affordable(topic) ==
        /\ status.numResearchTokens
             >= topic.cost + g.researchedCount[topic.name] * topic.costIncrease
        /\ ~topic.unlocksDeck \/ \E z \in 1..Len(g.zoneDecks) : g.zoneDecks[z].isLocked
      topics == SelectSeq(cfg.researchTopics, affordable)
      researchMoves ==
        IF mustMove THEN <<>>
        ELSE [i \in 1..Len(topics) |-> Move("doResearch", <<topics[i].name>>)]
      passMoves == IF mustMove THEN <<Move("pass", <<>>)>> ELSE <<>>
  IN IF Len(playMoves) > 0 THEN playMoves
     ELSE shipMoves \o drawMoves \o collectMoves \o researchMoves \o passMoves

\* C16: in every non-terminal position the move list ai.enumerate gives to
\* the search contains at least one move.
C16_EnumerateNeverEmpty ==
  (~IsNull(G) /\ Playing) => Len(enumerate(G, ctx, config)) > 0

\* ------------------------------------------------------------------------
\* Several games in one process: while the client of the first game plays,
\* makeLightsInTheVoidGame is called again, with any parameters
\* ------------------------------------------------------------------------
MaxGames == 2

\* makeLightsInTheVoidGame: Object.assign on the one module-level config
MakeGame ==
  /\ Len(games) < MaxGames
  /\ \E name \in DOMAIN GameParams :
       /\ games' = Append(games, name)
       /\ config' = MakeConfig(GameParams[name])
  /\ UNCHANGED <<G, ctx, calls, query, path, cardIcons, tokenLists, decks, response>>

GamesNext ==
  MoveShip \/ DrawCard \/ PlayCard \/ CollectResources \/ DoResearch \/ Pass \/ MakeGame

SpecGames == Init /\ [][GamesNext]_vars

\* C17: two games created in the same process with different parameters do
\* not affect each other: the turn limit, the token effects and the research
\* topics a game plays with are the ones it was created with, whatever the
\* order in which the games are created and their moves are interleaved.
C17_GamesShareNoState ==
  LET own == GameParams[games[1]] IN
  /\ config.maxTurns = ROUNDS_PER_PHASE * own.numPhases * own.numPlayers
  /\ config.tokenEffects = own.tokenEffects
  /\ config.researchTopics = own.researchTopics

\* C18: after any sequence of resets and steps, POST /reset succeeds and
\* yields a fresh game: the ship at HOME with energy 5 and armor 5, a hand of
\* five cards, and zone decks of the sizes they had after the first reset.
C18_ResetRestoresInitialState ==
  [][PostReset =>
       /\ response'.code = 200
       /\ G'.shipStatus.location = HOME
       /\ G'.shipStatus.energy = 5
       /\ G'.shipStatus.armor = 5
       /\ Len(G'.detectedStarSystems) = 5
       /\ \A z \in 1..Len(G'.zoneDecks) :
            Len(G'.zoneDecks[z].cards) = Len(Setup(GameParams.simplified).zoneDecks[z].cards)
       /\ IsNull(ctx'.gameover)]_vars

\* C19: GameSession.step returns true if and only if the move was valid and
\* was executed by the game (the state advanced), and false whenever the
\* game rejected the move as invalid.
C19_StepReportsOutcome ==
  [][\A action \in PostedIds :
       (PostStep(action) /\ response'.stepped # "none")
         => (response'.stepped = "true" <=> (calls' = calls + 1 /\ <<G', ctx'>> # <<G, ctx>>))]_vars

MaxEpisodePosts == 20

EpisodeIds ==
  {HexKeysIndexOf(<<"A", 1>>), HexKeysIndexOf(HOME), PLAY_CARD_START,
   DRAW_CARD_DISCARD_START, COLLECT_RESOURCES_START, PASS_ACTION}

EpisodeStep(action) == calls < MaxEpisodePosts /\ stepHandler(action)

EpisodeNext == PostReset \/ (\E action \in EpisodeIds : EpisodeStep(action)) \/ GetState

SpecEpisode == ServerInit /\ [][EpisodeNext]_vars

\* the points the move itself adds to player 0's score (applyCardPoints in
\* playCard), before the turn hooks run; 0 for a move the game does not apply
pointsScored(g, c, cfg, action) ==
  LET res == step(g, cfg, c, decodeAction(action, g)) IN
  IF res.status = "ok" THEN res.G.playerPoints["0"] - g.playerPoints["0"] ELSE 0

C22_PenaltyOnlyOnDeath ==
  response.stepped = "true"
    => ((response.finalReward = response.reward - DEATH_PENALTY)
          <=> (response.done /\ ShipDestroyed(G)))

\* C23: in the simplified game (1 player, 1 phase, no bonus role) every turn
\* consists of exactly 3 actions, and a game that is not ended early by the
\* destruction of the ship ends after 5 turns, after exactly 15 accepted
\* actions.
C23_FifteenActionsPerGame ==
  ~IsNull(G) =>
    /\ Playing => ctx.numMoves < 3
    /\ (~Playing /\ ~ShipDestroyed(G)) => (ctx.turn = 5 /\ ctx.numMoves = 3 /\ calls = 15)

\* ------------------------------------------------------------------------
\* generatePaths: breadth-first search, one path per endpoint
\* ------------------------------------------------------------------------
RECURSIVE tryDirections(_, _, _, _)
\* the loop over Object.values(Direction) for one dequeued entry, from the
\* i-th direction on; endpointPaths is the Map in insertion order
tryDirections(i, entry, queue, endpointPaths) ==
  IF i > Len(DirOrder) THEN [queue |-> queue, endpointPaths |-> endpointPaths]
  ELSE LET dir == DirOrder[i]
           nextCoords == getNeighborCoords(entry.coords, dir)
       IN
       IF IsNull(nextCoords) THEN tryDirections(i + 1, entry, queue, endpointPaths)
       ELSE LET newPath == Append(entry.path, dir)
                endpointKey == CoordKey(nextCoords)
            IN
            IF \E k \in 1..Len(endpointPaths) : endpointPaths[k].key = endpointKey
            THEN tryDirections(i + 1, entry, queue, endpointPaths)
            ELSE tryDirections(i + 1, entry,
                               Append(queue, [coords |-> nextCoords, path |-> newPath]),
                               Append(endpointPaths, [key |-> endpointKey, path |-> newPath]))

RECURSIVE generatePathsLoop(_, _, _)
\* while (queue.length > 0)
generatePathsLoop(queue, endpointPaths, maxLength) ==
  IF queue = <<>> THEN endpointPaths
  ELSE LET entry == Head(queue) IN
       IF Len(entry.path) >= maxLength
       THEN generatePathsLoop(Tail(queue), endpointPaths, maxLength)
       ELSE LET r == tryDirections(1, entry, Tail(queue), endpointPaths) IN
            generatePathsLoop(r.queue, r.endpointPaths, maxLength)

\* Array.from(endpointPaths.values())
generatePaths(currentCoords, maxLength) ==
  LET e == generatePathsLoop(<<[coords |-> currentCoords, path |-> <<>>]>>, <<>>, maxLength) IN
  [i \in 1..Len(e) |-> e[i].path]

\* A generatePaths call on its own: any board cell as the start and any
\* maximum length up to MaxLength (the ship's speed is 2).  query.maxSteps
\* is -1 until the call was made, path then holds the paths returned.
MaxLength == 3

BfsInit ==
  /\ config = MakeConfig(GameParams.simplified)
  /\ G = Setup(GameParams.simplified)
  /\ ctx = [turn |-> 1, currentPlayer |-> "0", numMoves |-> 0,
            numPlayers |-> 1, gameover |-> NULL]
  /\ calls = 0
  /\ query \in [from : HexNames, to : {HOME}, maxSteps : {-1}]
  /\ path = <<>>
  /\ cardIcons = <<>>
  /\ tokenLists = NoOptions
  /\ games = <<"simplified">>
  /\ decks = SetupDecks(GameParams.simplified.decks)
  /\ response = NoResponse

GeneratePaths ==
  /\ query.maxSteps = -1
  /\ \E maxLength \in 0..MaxLength :
       /\ query' = [query EXCEPT !.maxSteps = maxLength]
       /\ path' = generatePaths(HexCoords[query.from], maxLength)
  /\ UNCHANGED <<G, ctx, config, calls, cardIcons, tokenLists, games, decks, response>>

BfsNext == GeneratePaths

SpecBfs == BfsInit /\ [][BfsNext]_vars

\* C24: generatePaths(start, maxLength) returns exactly one path for each
\* board cell at distance 1..maxLength from start, no path to any other
\* destination, and every returned path is a shortest one: its length is the
\* distance from start to the cell it ends on.
C24_BfsDestinations ==
  query.maxSteps >= 0 =>
    LET start == HexCoords[query.from]
        endOf(i) == ApplyDirs(start, path[i])
    IN
    /\ \A h \in HexNames :
         getDistance(start, HexCoords[h]) \in 1..query.maxSteps
           => Cardinality({i \in 1..Len(path) : endOf(i) = HexCoords[h]}) = 1
    /\ \A i \in 1..Len(path) :
         /\ ReverseLookup(endOf(i)) # NoHex
         /\ getDistance(start, endOf(i)) \in 1..query.maxSteps
         /\ Len(path[i]) = getDistance(start, endOf(i))

\* ------------------------------------------------------------------------
\* Geometry calls on their own: getDistance for any two cube coordinates
\* within GeoRadius of the origin (one ring beyond the board), and
\* getNeighborCoords there and back for any board cell and direction.
\* query holds the arguments, path the values returned.
\* ------------------------------------------------------------------------
GeoRadius == 8

CubeCoords ==
  {c \in [q : -GeoRadius..GeoRadius, r : -GeoRadius..GeoRadius, s : -GeoRadius..GeoRadius] :
     c.q + c.r + c.s = 0}

Opposite(d) ==
  CASE d = "W" -> "E" [] d = "E" -> "W"
    [] d = "NW" -> "SE" [] d = "SE" -> "NW"
    [] d = "NE" -> "SW" [] d = "SW" -> "NE"

GeoInit ==
  /\ config = MakeConfig(GameParams.simplified)
  /\ G = Setup(GameParams.simplified)
  /\ ctx = [turn |-> 1, currentPlayer |-> "0", numMoves |-> 0,
            numPlayers |-> 1, gameover |-> NULL]
  /\ calls = 0
  /\ query = [kind |-> "none"]
  /\ path = <<>>
  /\ cardIcons = <<>>
  /\ tokenLists = NoOptions
  /\ games = <<"simplified">>
  /\ decks = SetupDecks(GameParams.simplified.decks)
  /\ response = NoResponse

GetDistance ==
  /\ query.kind = "none"
  /\ \E a \in CubeCoords, b \in CubeCoords :
       /\ query' = [kind |-> "distance", a |-> a, b |-> b]
       /\ path' = [ab |-> getDistance(a, b), ba |-> getDistance(b, a), aa |-> getDistance(a, a)]
  /\ UNCHANGED <<G, ctx, config, calls, cardIcons, tokenLists, games, decks, response>>

GetNeighborCoords ==
  /\ query.kind = "none"
  /\ \E h \in HexNames, d \in Direction :
       LET a == HexCoords[h]
           neighbor == getNeighborCoords(a, d)
       IN
       /\ query' = [kind |-> "neighbor", a |-> a, d |-> d]
       /\ path' = [neighbor |-> neighbor,
                   back |-> IF IsNull(neighbor) THEN NULL
                            ELSE getNeighborCoords(neighbor, Opposite(d))]
  /\ UNCHANGED <<G, ctx, config, calls, cardIcons, tokenLists, games, decks, response>>

GeoNext == GetDistance \/ GetNeighborCoords

SpecGeo == GeoInit /\ [][GeoNext]_vars

\* C25: for all cube coordinates a and b, distance(a, b) = distance(b, a) and
\* distance(a, a) = 0; for every board cell a and direction d, when
\* getNeighborCoords(a, d) is on the board, the step from it in the opposite
\* direction (W/E, NW/SE, NE/SW) returns a.
C25_GeometrySymmetry ==
  /\ query.kind = "distance" => (path.ab = path.ba /\ path.aa = 0)
  /\ (query.kind = "neighbor" /\ ~IsNull(path.neighbor)) => path.back = query.a

\* a cell on the rim of the board whose neighbour in direction d is on the
\* board, and the step back
C25_Witness ==
  /\ query.kind = "neighbor"
  /\ getDistance(Origin, query.a) = BoardRadius
  /\ ~IsNull(path.neighbor)
  /\ getDistance(Origin, path.neighbor) = BoardRadius
  /\ path.back = query.a

\* a feature within [-1, 1]
InRange(f) == -f.d <= f.n /\ f.n <= f.d

\* C26: in every reachable game state encodeState returns exactly 128 values
\* and every value lies in [-1, 1] (turn and action counters, energy and
\* armor ratios, coordinates, points, distances and token indices included).
C26_ObservationInRange ==
  response.code = 200 =>
    /\ Len(response.state) = FEATURE_SIZE
    /\ \A i \in 1..Len(response.state) : InRange(response.state[i])

\* ------------------------------------------------------------------------
\* CardLoader.shuffleArray (Fisher-Yates with Math.random) and the
\* determinization resample of the search
\* ------------------------------------------------------------------------
\* [array[i], array[j]] = [array[j], array[i]] that loses array[i]
SwapOverwrites(array, i, j) == [array EXCEPT ![i] = array[j]]
\* [array[i], array[j]] = [array[j], array[i]]
Swap(array, i, j) == [array EXCEPT ![i] = array[j], ![j] = array[i]]

RECURSIVE shuffleLoop(_, _, _)
\* the loop from position i (1-based) down to 2; randoms[i] is the position
\* Math.floor(Math.random() * i) + 1 drawn for position i
shuffleLoop(array, i, randoms) ==
  IF i <= 1 THEN array
  ELSE shuffleLoop(Swap(array, i, randoms[i]), i - 1, randoms)

\* the values Math.random can produce for an array of n elements
RandomDraws(n) == {f \in [1..n -> 1..n] : \A i \in 1..n : f[i] <= i}

\* every outcome of shuffleArray(array)
shuffleArray(array) ==
  {shuffleLoop(array, Len(array), randoms) : randoms \in RandomDraws(Len(array))}

\* every outcome of a resample: each unlocked deck is reshuffled, a locked
\* deck is left as it is
resample(zoneDecks) ==
  LET orders(z) == IF zoneDecks[z].isLocked THEN {zoneDecks[z].cards}
                   ELSE shuffleArray(zoneDecks[z].cards)
      allOrders == UNION {orders(z) : z \in 1..Len(zoneDecks)}
  IN {[z \in 1..Len(zoneDecks) |-> [zoneDecks[z] EXCEPT !.cards = o[z]]] :
        o \in {f \in [1..Len(zoneDecks) -> allOrders] :
                 \A z \in 1..Len(zoneDecks) : f[z] \in orders(z)}}

\* A shuffle on its own: any array of up to MaxDeck cards out of three
\* titles (a title may repeat), shuffled by shuffleArray or, as the cards of
\* an unlocked deck next to a locked one, by a resample.  query holds the
\* input, path the array returned.
MaxDeck == 3

ShuffleTitles == {"Noquisi", "Capella", "Algol"}
ShuffleInputs == UNION {[1..n -> ShuffleTitles] : n \in 0..MaxDeck}

ShuffleInit ==
  /\ config = MakeConfig(GameParams.simplified)
  /\ G = Setup(GameParams.simplified)
  /\ ctx = [turn |-> 1, currentPlayer |-> "0", numMoves |-> 0,
            numPlayers |-> 1, gameover |-> NULL]
  /\ calls = 0
  /\ query \in [array : ShuffleInputs, by : {"none"}]
  /\ path = <<>>
  /\ cardIcons = <<>>
  /\ tokenLists = NoOptions
  /\ games = <<"simplified">>
  /\ decks = SetupDecks(GameParams.simplified.decks)
  /\ response = NoResponse

ShuffleArray ==
  /\ query.by = "none"
  /\ query' = [query EXCEPT !.by = "shuffleArray"]
  /\ path' \in shuffleArray(query.array)
  /\ UNCHANGED <<G, ctx, config, calls, cardIcons, tokenLists, games, decks, response>>

Resample ==
  /\ query.by = "none"
  /\ query' = [query EXCEPT !.by = "resample"]
  /\ \E d \in resample(<<[cards |-> query.array, isLocked |-> FALSE],
                         [cards |-> query.array, isLocked |-> TRUE]>>) :
       path' = d[1].cards
  /\ UNCHANGED <<G, ctx, config, calls, cardIcons, tokenLists, games, decks, response>>

ShuffleNext == ShuffleArray \/ Resample

SpecShuffle == ShuffleInit /\ [][ShuffleNext]_vars

\* number of occurrences of x in seq
Occurrences(seq, x) == Cardinality({i \in 1..Len(seq) : seq[i] = x})

\* C28: shuffling a deck (CardLoader.shuffleArray, and every determinization
\* resample) yields a permutation of its input: the same length and the same
\* number of occurrences of every card.
C28_ShufflePreservesComposition ==
  query.by # "none" =>
    /\ Len(path) = Len(query.array)
    /\ \A t \in ShuffleTitles : Occurrences(path, t) = Occurrences(query.array, t)

\* shuffleArray returned three cards, one title twice, in another order
C28_Witness ==
  /\ query.by = "shuffleArray"
  /\ Len(query.array) = 3
  /\ \E t \in ShuffleTitles : Occurrences(query.array, t) = 2
  /\ path # query.array

\* ------------------------------------------------------------------------
\* One run of the determinized search (DeterminizedMCTSBot, created with
\* iterations and reshuffleEveryN): the source of the bot is not among the
\* files, its iteration loop is taken from the determinization policy of
\* the specification.  query holds the two parameters, calls the number of
\* iterations done, path the iterations at which a resample took place,
\* decks the current deck order and cardIcons the deck order the last
\* playout ran on.
\* ------------------------------------------------------------------------
MaxIterations == 100

ReshuffleIntervals == {1, 3, 20}
IterationBudgets == {7, 100, MaxIterations}

\* the decks of the position searched: an unlocked deck and a locked one
SearchDecks ==
  <<[cards |-> <<"Noquisi", "Capella", "Algol">>, isLocked |-> FALSE],
    [cards |-> <<"Vega">>, isLocked |-> TRUE]>>

\* a resample that skips the first iteration
resampleDueAfterFirst(iteration, reshuffleEveryN) ==
  iteration > 0 /\ iteration % reshuffleEveryN = 0
\* every reshuffleEveryN iterations, starting with iteration 0
resampleDue(iteration, reshuffleEveryN) == iteration % reshuffleEveryN = 0

SearchInit ==
  /\ config = MakeConfig(GameParams.simplified)
  /\ G = Setup(GameParams.simplified)
  /\ ctx = [turn |-> 1, currentPlayer |-> "0", numMoves |-> 0,
            numPlayers |-> 1, gameover |-> NULL]
  /\ calls = 0
  /\ query \in [reshuffleEveryN : ReshuffleIntervals, iterations : IterationBudgets]
  /\ path = <<>>
  /\ cardIcons = <<>>
  /\ tokenLists = NoOptions
  /\ games = <<"simplified">>
  /\ decks = SearchDecks
  /\ response = NoResponse

\* one iteration: resample when due, then select, expand and play out on
\* the current deck order
Iterate ==
  /\ calls < query.iterations
  /\ LET due == resampleDue(calls, query.reshuffleEveryN) IN
     /\ decks' \in IF due THEN resample(decks) ELSE {decks}
     /\ path' = IF due THEN Append(path, calls) ELSE path
  /\ cardIcons' = decks'
  /\ calls' = calls + 1
  /\ UNCHANGED <<G, ctx, config, query, tokenLists, games, response>>

SearchNext == Iterate

SpecSearch == SearchInit /\ [][SearchNext]_vars

\* C27: a search run with reshuffle interval K and N iterations resamples
\* the hidden deck order exactly at the iterations 0, K, 2K, ... below N
\* (5 resample events for K = 20 and N = 100) and uses one unchanged deck
\* order for the playouts between two resamples.
C27_ResampleSchedule ==
  /\ [](path = [j \in 1..((calls + query.reshuffleEveryN - 1) \div query.reshuffleEveryN) |->
                  (j - 1) * query.reshuffleEveryN])
  /\ []((query.reshuffleEveryN = 20 /\ calls = 100) => Len(path) = 5)
  /\ [][(calls % query.reshuffleEveryN # 0) => (decks' = decks /\ cardIcons' = cardIcons)]_vars

\* the run with K = 20 and N = 100 is over: five resamples took place and
\* the deck order the playouts ended on differs from the one at the start
C27_Witness ==
  /\ query.reshuffleEveryN = 20
  /\ query.iterations = 100
  /\ calls = 100
  /\ path = <<0, 20, 40, 60, 80>>
  /\ cardIcons # SearchDecks

\* ------------------------------------------------------------------------
\* Rejected moves
\* ------------------------------------------------------------------------
\* G as the move function left it when it returned
DraftOf(res, g) == IF "G" \in DOMAIN res THEN res.G ELSE g

\* the results of every move call of the inputs at the current position
MoveResults ==
  {moveShip(G, dirs) : dirs \in MoveInputs(G.shipStatus.speed)}
  \cup {drawCard(G, zoneNumber, cardToDiscard) :
          zoneNumber \in ZoneInputs, cardToDiscard \in DiscardInputs}
  \cup {playCard(G, config, ctx.currentPlayer, cardTitle, tokenToPlayKey) :
          cardTitle \in CardTitles, tokenToPlayKey \in KeyInputs}
  \cup {collectResources(G, config, ctx.currentPlayer, tokenToCollectFromKey) :
          tokenToCollectFromKey \in KeyInputs}
  \cup {doResearch(G, config, researchTopicName) : researchTopicName \in TopicInputs}

C30_CollectWithoutTokenInvalid ==
  (Playing /\ IsNull(G.hexBoard[G.shipStatus.location].celestialBodyToken))
    => \A tokenToCollectFromKey \in KeyInputs :
         LET res == collectResources(G, config, ctx.currentPlayer, tokenToCollectFromKey) IN
         /\ res.status = INVALID_MOVE
         /\ DraftOf(res, G) = G

\* C31: drawCard called with a zone number for which no deck exists (below
\* 1, or not an index of zoneDecks) returns INVALID_MOVE and leaves the state
\* unchanged.
C31_DrawFromMissingZoneInvalid ==
  Playing => \A zoneNumber \in ZoneInputs, cardToDiscard \in DiscardInputs :
               (zoneNumber < 1 \/ zoneNumber + 1 \notin DOMAIN G.zoneDecks)
                 => LET res == drawCard(G, zoneNumber, cardToDiscard) IN
                    /\ res.status = INVALID_MOVE
                    /\ DraftOf(res, G) = G

\* the results of every call of a move other than moveShip and pass
OtherMoveResults ==
  {drawCard(G, zoneNumber, cardToDiscard) :
     zoneNumber \in ZoneInputs, cardToDiscard \in DiscardInputs}
  \cup {playCard(G, config, ctx.currentPlayer, cardTitle, tokenToPlayKey) :
          cardTitle \in CardTitles, tokenToPlayKey \in KeyInputs}
  \cup {collectResources(G, config, ctx.currentPlayer, tokenToCollectFromKey) :
          tokenToCollectFromKey \in KeyInputs}
  \cup {doResearch(G, config, researchTopicName) : researchTopicName \in TopicInputs}

hasBonusMoveShipAction(g, c) ==
  g.playerRoleCards[c.currentPlayer].affectedAction = "moveShip"

\* C32: in every turn, once currentTurnMoves is 3 and no moveShip was made
\* in that turn, drawCard, playCard, collectResources and doResearch are
\* rejected and only moveShip or pass is accepted; no player completes 4
\* counted actions in one turn unless they hold the moveShip bonus role and
\* at least one of the 4 was a moveShip.
C32_BonusActionRule ==
  Playing =>
    /\ G.currentTurnMoves <= 3
    /\ (G.currentTurnMoves = 3 /\ ~G.currentTurnMoveShipCalled)
         => /\ \A res \in OtherMoveResults : res.status = INVALID_MOVE
            /\ pass(G).status = "ok"
    /\ \A res \in MoveResults :
         (res.status = "ok" /\ res.G.currentTurnMoves = 4)
           => /\ hasBonusMoveShipAction(G, ctx)
              /\ res.G.currentTurnMoveShipCalled

\* the holder of the bonus role has taken three counted actions, none of
\* them a moveShip, and a moveShip is accepted as the fourth
C32_Witness ==
  /\ Playing
  /\ G.currentTurnMoves = 3
  /\ ~G.currentTurnMoveShipCalled
  /\ hasBonusMoveShipAction(G, ctx)
  /\ \E dirs \in MoveInputs(G.shipStatus.speed) :
       /\ moveShip(G, dirs).status = "ok"
       /\ moveShip(G, dirs).G.currentTurnMoves = 4

\* ------------------------------------------------------------------------
\* Whole games: the games calibrateDifficulty creates, played to their end
\* with the moves of a short walk along the row of HOME (west to A1 where
\* Noquisi is played, and back), draws from zone 1, collecting and passes
\* ------------------------------------------------------------------------
\* more accepted moves than any of the games lasts
MaxMatchCalls == 81

MatchDirs == {<<"W">>}
MatchCards == {"Noquisi", "Capella"}
MatchKeys == {<<"red", "normal">>, <<"yellow", "normal">>}
MatchDiscards == {NoTitle, "Gacrux"}

MatchMove(res) == calls < MaxMatchCalls /\ applyMove(res)

MatchMoveShip == \E dirs \in MatchDirs : MatchMove(moveShip(G, dirs))

MatchDrawCard ==
  \E cardToDiscard \in MatchDiscards : MatchMove(drawCard(G, 1, cardToDiscard))

MatchPlayCard ==
  \E cardTitle \in MatchCards, tokenToPlayKey \in MatchKeys :
    MatchMove(playCard(G, config, ctx.currentPlayer, cardTitle, tokenToPlayKey))

MatchCollectResources ==
  \E tokenToCollectFromKey \in MatchKeys :
    MatchMove(collectResources(G, config, ctx.currentPlayer, tokenToCollectFromKey))

MatchPass == MatchMove(pass(G))

MatchInit ==
  \E name \in DOMAIN CalibrationParams :
    /\ config = MakeConfig(CalibrationParams[name])
    /\ G = Setup(CalibrationParams[name])
    /\ ctx = [turn |-> 1, currentPlayer |-> "0", numMoves |-> 0,
              numPlayers |-> CalibrationParams[name].numPlayers, gameover |-> NULL]
    /\ calls = 0
    /\ query = NoQuery
    /\ path = NoPath
    /\ cardIcons = <<>>
    /\ tokenLists = NoOptions
    /\ games = <<name>>
    /\ decks = SetupDecks(CalibrationParams[name].decks)
    /\ response = NoResponse

MatchNext ==
  MatchMoveShip \/ MatchDrawCard \/ MatchPlayCard \/ MatchCollectResources \/ MatchPass

SpecMatch == MatchInit /\ [][MatchNext]_vars

\* the points of all players: those of the completed phases and those of the
\* current one
TotalPoints(g) ==
  SumSeq(g.phasePointTotals)
  + SumSeq([i \in 1..Cardinality(DOMAIN g.playerPoints) |->
              g.playerPoints[CHOOSE p \in DOMAIN g.playerPoints : PlayerIndex(p) = i - 1]])

\* the points a card awards to the players of the game when playerID plays it
\* ("" at setup: nobody played the zone 0 card)
PointsAwarded(cardTitle, playerID, g) ==
  LET pts == calculateCardPointsPerPlayer(CardData[cardTitle], playerID, g.playerItineraryCards) IN
  SumSeq([i \in 1..Cardinality(DOMAIN g.playerPoints) |->
            pts[CHOOSE p \in DOMAIN g.playerPoints : PlayerIndex(p) = i - 1]])

\* the game ended in turn.onEnd at the turn limit, not in endIf
TurnLimitReached == ~Playing /\ ~ShipDestroyed(G)

\* C33: when the game ends because ctx.turn reached maxTurns, finalScore is
\* the sum over all players of every point awarded during the whole game
\* (the setup bonus for the zone 0 card plus all played cards: the total
\* starts at the setup bonus and every step adds exactly the points of the
\* card it plays), and the outcome is playersWin exactly when finalScore >=
\* winThreshold, otherwise playersLose.
C33_FinalScoreAtTurnLimit ==
  /\ [](calls = 0 => TotalPoints(G) = PointsAwarded(G.playedCards[1], "", G))
  /\ [][TotalPoints(G') =
          TotalPoints(G) + (IF Len(G'.playedCards) > Len(G.playedCards)
                            THEN PointsAwarded(G'.playedCards[Len(G'.playedCards)],
                                               ctx.currentPlayer, G)
                            ELSE 0)]_vars
  /\ [](TurnLimitReached =>
          /\ ctx.turn = config.maxTurns
          /\ ctx.gameover.finalScore = TotalPoints(G)
          /\ ("playersWin" \in DOMAIN ctx.gameover)
               <=> (ctx.gameover.finalScore >= ParamsOf(games[1]).winThreshold)
          /\ ("playersLose" \in DOMAIN ctx.gameover)
               <=> (ctx.gameover.finalScore < ParamsOf(games[1]).winThreshold))

\* a two-phase game of two players was won at the turn limit with the points
\* of a played card
C33_Witness ==
  /\ TurnLimitReached
  /\ ctx.numPlayers = 2
  /\ config.numPhases = 2
  /\ Len(G.playedCards) > 1
  /\ ctx.gameover.finalScore >= 3
  /\ "playersWin" \in DOMAIN ctx.gameover

\* C34: for every numPlayers >= 1 and numPhases >= 1, completeCurrentPhase
\* runs exactly once per phase (after every ROUNDS_PER_PHASE full rounds), so
\* when the game ends at the turn limit phasePointTotals has exactly
\* numPhases entries.
C34_OneCompletionPerPhase ==
  /\ Playing => Len(G.phasePointTotals) = ((ctx.turn - 1) \div ctx.numPlayers) \div ROUNDS_PER_PHASE
  /\ TurnLimitReached => Len(G.phasePointTotals) = config.numPhases

\* C35: in every state reachable from setup by accepted moves, the hand
\* (detectedStarSystems) holds at most 5 cards, so every hand card sits in a
\* slot 0..4 that the play-card and discard ids can address.
C35_HandSizeBound ==
  LET hand == G.detectedStarSystems IN
  /\ Len(hand) <= HandLimit
  /\ \A i \in 1..Len(hand) :
       /\ encodeDrawCard(<<1, hand[i]>>, G) \in DRAW_CARD_DISCARD_START..DRAW_CARD_DISCARD_END
       /\ decodeDrawCard(encodeDrawCard(<<1, hand[i]>>, G), G).args = <<1, hand[i]>>
       /\ PLAY_CARD_START + (i - 1) * MaxTokenOptions + (MaxTokenOptions - 1) <= PLAY_CARD_END

\* a card was drawn into a full hand for a discarded one
C35_Witness ==
  /\ Len(G.detectedStarSystems) = HandLimit
  /\ Len(G.playedCards) = 1
  /\ \E i \in 1..Len(G.detectedStarSystems) : G.detectedStarSystems[i] = "Sirius"

\* C36: from setup, every sequence of accepted moves (pass included) reaches
\* game over after at most 4 * maxTurns accepted moves: every step of a game
\* is one accepted move of the game in progress, a turn never holds 4 moves
\* without ending, the turn number never exceeds maxTurns, and a game that
\* is still in progress has seen fewer than 4 * maxTurns accepted moves.
C36_GameTerminates ==
  /\ [][Playing /\ calls' = calls + 1]_vars
  /\ [](Playing => /\ ctx.numMoves < TurnMaxMoves
                   /\ ctx.turn <= config.maxTurns
                   /\ calls <= TurnMaxMoves * (ctx.turn - 1) + ctx.numMoves
                   /\ calls < TurnMaxMoves * config.maxTurns)
  /\ [](calls <= TurnMaxMoves * config.maxTurns)

\* the longest game: two players, two phases, four moves in every turn
C36_Witness ==
  /\ TurnLimitReached
  /\ config.maxTurns = 20
  /\ calls = TurnMaxMoves * config.maxTurns

\* ------------------------------------------------------------------------
\* Parallel calibration (calibrate.ts calibrateDifficultyParallel and
\* calibrate-worker.ts).  The state of the main thread and of the workers:
\*   query     the arguments [numTrials, workerPoolSize]
\*   path      taskQueue
\*   cardIcons results
\*   calls     completedCount
\*   games     workers: for each worker the tasks posted to it and not yet
\*             taken (inbox), the trials its message handlers are running
\*             (running), its messages to the main thread not yet handled
\*             (outbox) and whether it has crashed
\*   decks     the worker.postMessage calls made so far, in order
\*   response  how calibrateDifficultyParallel settled ("pending" before)
\* ------------------------------------------------------------------------
MaxTrials == 3
MaxWorkers == 2
MaxTrialSteps == 1

\* what the game and the bot of one trial do: the bot acts `steps` times and
\* then either the game is over with finalScore, or the bot yields no
\* action, or (steps = 0) loading the cards fails
TrialScripts ==
  {[steps |-> n, outcome |-> "gameover", finalScore |-> f] :
     n \in 0..MaxTrialSteps, f \in {0, 12}}
  \cup {[steps |-> n, outcome |-> "noaction", finalScore |-> 0] : n \in 0..MaxTrialSteps}
  \cup {[steps |-> 0, outcome |-> "loaderror", finalScore |-> 0]}

\* finalState?.ctx.gameover?.finalScore || 0
finalScoreOf(script) == IF script.outcome = "gameover" THEN script.finalScore ELSE 0

\* a trial that ran to its end: the score it reports
Scored(score) == [status |-> "ok", score |-> score]

RECURSIVE sequentialLoop(_, _)
\* the while loop of one trial of calibrateDifficulty from its iteration i
sequentialLoop(script, i) ==
  IF script.outcome = "gameover" /\ i >= script.steps THEN Scored(finalScoreOf(script))
  \* const action = await Step(client, bot); if (!action) break;
  ELSE IF i >= script.steps THEN Scored(finalScoreOf(script))
  ELSE sequentialLoop(script, i + 1)

\* one trial of the sequential loop: the score pushed, or the exception that
\* leaves calibrateDifficulty
sequentialTrial(script) ==
  IF script.outcome = "loaderror" THEN Throws ELSE sequentialLoop(script, 0)

RECURSIVE workerLoop(_, _)
\* the while loop of runTrial from its iteration i
workerLoop(script, i) ==
  IF script.outcome = "gameover" /\ i >= script.steps THEN Scored(finalScoreOf(script))
  \* const action = await Step(client, bot); the progress message reads
  \* action.payload before the test of action
  ELSE IF i >= script.steps THEN Throws
  ELSE workerLoop(script, i + 1)

\* runTrial: the WorkerResult
runTrial(trialNumber, script) ==
  LET res == IF script.outcome = "loaderror" THEN Throws ELSE workerLoop(script, 0) IN
  IF res.status = "ok"
  THEN [trialNumber |-> trialNumber, score |-> res.score]
  ELSE [trialNumber |-> trialNumber, score |-> 0, error |-> "Error"]

Progress(trialNumber) == [type |-> "progress", trialNumber |-> trialNumber]

\* taskQueue.shift() that leaves the queue as it was
ShiftKeepsHead(queue) == queue
\* the queue after taskQueue.shift()
Shift(queue) == IF queue = <<>> THEN queue ELSE Tail(queue)

IdleWorker == [inbox |-> <<>>, running |-> {}, outbox |-> <<>>, crashed |-> FALSE]

\* the state when the spawn loop has run: numWorkers workers, the first
\* trials posted to them one each
PoolInit ==
  /\ config = MakeConfig(GameParams.simplified)
  /\ G = Setup(GameParams.simplified)
  /\ ctx = [turn |-> 1, currentPlayer |-> "0", numMoves |-> 0,
            numPlayers |-> 1, gameover |-> NULL]
  /\ tokenLists = NoOptions
  /\ query \in [numTrials : 1..MaxTrials, workerPoolSize : 1..MaxWorkers]
  /\ LET numWorkers == Min2(query.numTrials, query.workerPoolSize) IN
     /\ games = [i \in 1..numWorkers |-> [IdleWorker EXCEPT !.inbox = <<i>>]]
     /\ decks = [i \in 1..numWorkers |-> [worker |-> i, trialNumber |-> i]]
     /\ path = [i \in 1..(query.numTrials - numWorkers) |-> numWorkers + i]
  /\ cardIcons = <<>>
  /\ calls = 0
  /\ response = [settled |-> "pending", scores |-> <<>>]

Pending == response.settled = "pending"

\* parentPort.on('message'): the handler starts runTrial, which posts its
\* first progress message
StartTrial(w) ==
  /\ Pending
  /\ ~games[w].crashed
  /\ games[w].inbox # <<>>
  /\ \E script \in TrialScripts :
       LET trialNumber == Head(games[w].inbox) IN
       games' = [games EXCEPT ![w].inbox = Tail(@),
                              ![w].running = @ \cup {[trialNumber |-> trialNumber,
                                                      script |-> script]},
                              ![w].outbox = Append(@, Progress(trialNumber))]
  /\ UNCHANGED <<G, ctx, config, calls, query, path, cardIcons, tokenLists, decks, response>>

\* runTrial returns and the handler posts the result
FinishTrial(w) ==
  /\ Pending
  /\ ~games[w].crashed
  /\ \E trial \in games[w].running :
       games' = [games EXCEPT ![w].running = @ \ {trial},
                              ![w].outbox = Append(@, runTrial(trial.trialNumber, trial.script))]
  /\ UNCHANGED <<G, ctx, config, calls, query, path, cardIcons, tokenLists, decks, response>>

\* the worker thread dies of an uncaught error: its tasks are lost, the main
\* thread gets an 'error' event, whose handler only logs it
Crash(w) ==
  /\ Pending
  /\ ~games[w].crashed
  /\ games' = [games EXCEPT ![w].crashed = TRUE, ![w].inbox = <<>>, ![w].running = {}]
  /\ UNCHANGED <<G, ctx, config, calls, query, path, cardIcons, tokenLists, decks, response>>

\* worker.on('message') in the main thread
OnMessage(w) ==
  /\ Pending
  /\ games[w].outbox # <<>>
  /\ LET message == Head(games[w].outbox) IN
     IF "type" \in DOMAIN message
     THEN /\ games' = [games EXCEPT ![w].outbox = Tail(@)]
          /\ UNCHANGED <<cardIcons, calls, path, decks>>
     ELSE /\ cardIcons' = Append(cardIcons, message)
          /\ calls' = calls + 1
          /\ path' = Shift(path)
          \* const nextTrial = taskQueue.shift(); if (nextTrial !== undefined) ...
          /\ IF path = <<>>
             THEN /\ games' = [games EXCEPT ![w].outbox = Tail(@)]
                  /\ UNCHANGED decks
             ELSE \* a message posted to a dead worker is dropped
                  /\ games' = [games EXCEPT ![w].outbox = Tail(@),
                                            ![w].inbox = IF games[w].crashed THEN @
                                                         ELSE Append(@, Head(path))]
                  /\ decks' = Append(decks, [worker |-> w, trialNumber |-> Head(path)])
  /\ UNCHANGED <<G, ctx, config, query, tokenLists, response>>

\* results.filter(r => !r.error).map(r => r.score)
successfulScores(results) ==
  LET ok == SelectSeq(results, LAMBDA r : "error" \notin DOMAIN r) IN
  [i \in 1..Len(ok) |-> ok[i].score]

\* the interval callback finds every trial completed: the promise resolves
\* and the function returns its statistics or throws
CheckComplete ==
  /\ Pending
  /\ calls >= query.numTrials
  /\ LET scores == successfulScores(cardIcons) IN
     response' = IF Len(scores) = 0
                 THEN [settled |-> "thrown", scores |-> scores]
                 ELSE [settled |-> "returned", scores |-> scores]
  /\ UNCHANGED <<G, ctx, config, calls, query, path, cardIcons, tokenLists, games, decks>>

PoolNext ==
  \/ \E w \in 1..Len(games) : StartTrial(w)
  \/ \E w \in 1..Len(games) : FinishTrial(w)
  \/ \E w \in 1..Len(games) : Crash(w)
  \/ \E w \in 1..Len(games) : OnMessage(w)
  \/ CheckComplete

SpecPool == PoolInit /\ [][PoolNext]_vars

\* the event loops run: a message that arrived is handled, a trial that was
\* started returns, the interval fires; nothing obliges a worker to crash
PoolFairness ==
  /\ \A w \in 1..MaxWorkers :
       /\ WF_vars(w \in 1..Len(games) /\ StartTrial(w))
       /\ WF_vars(w \in 1..Len(games) /\ FinishTrial(w))
       /\ WF_vars(w \in 1..Len(games) /\ OnMessage(w))
  /\ WF_vars(CheckComplete)

SpecPoolFair == SpecPool /\ PoolFairness

\* the posts to worker w, and the results handled that answer them
PostsTo(w) == {i \in 1..Len(decks) : decks[i].worker = w}
ResultsFrom(w) ==
  {j \in 1..Len(cardIcons) :
     \E i \in PostsTo(w) : decks[i].trialNumber = cardIcons[j].trialNumber}

\* no trial number is posted twice, a trial is either still in the queue or
\* was posted, all were posted when the run settles, a worker has at most one
\* trial outstanding (in its inbox, running, or as a result not yet handled),
\* and the trials in flight are at most min(numTrials, workerPoolSize)
TrialAssignmentInvariant ==
  /\ \A i, j \in 1..Len(decks) : decks[i].trialNumber = decks[j].trialNumber => i = j
  /\ {decks[i].trialNumber : i \in 1..Len(decks)} \cup {path[i] : i \in 1..Len(path)}
       = 1..query.numTrials
  /\ Len(decks) + Len(path) = query.numTrials
  /\ ~Pending => Len(decks) = query.numTrials
  /\ \A w \in 1..Len(games) :
       /\ Cardinality(PostsTo(w)) - Cardinality(ResultsFrom(w)) \in {0, 1}
       /\ ~games[w].crashed
            => Len(games[w].inbox) + Cardinality(games[w].running)
                 + Cardinality({i \in 1..Len(games[w].outbox) :
                                  "type" \notin DOMAIN games[w].outbox[i]})
                 = Cardinality(PostsTo(w)) - Cardinality(ResultsFrom(w))
  /\ Len(decks) - calls <= Min2(query.numTrials, query.workerPoolSize)

C38_CalibrationCompletes ==
  /\ \A t \in 1..MaxTrials :
       (\E i \in 1..Len(decks) : decks[i].trialNumber = t)
         ~> (\E j \in 1..Len(cardIcons) : cardIcons[j].trialNumber = t)
  /\ <>(~Pending)
  /\ [](~Pending => /\ response.scores = successfulScores(cardIcons)
                    /\ response.settled = "thrown" <=> Len(response.scores) = 0)

\* C39: for the same game and the same bot decisions, runTrial in the worker
\* reports the same score as one trial of the sequential calibrateDifficulty
\* loop; in particular when the bot yields no action the loop stops and the
\* trial reports the game's final score (0 if none), not an error.
C39_WorkerTrialEqualsSequential ==
  [][\A w \in 1..Len(games) : \A trial \in games[w].running :
       (trial \notin games'[w].running /\ ~games'[w].crashed
          /\ sequentialTrial(trial.script).status = "ok")
         => LET result == games'[w].outbox[Len(games'[w].outbox)] IN
            /\ "error" \notin DOMAIN result
            /\ result.score = sequentialTrial(trial.script).score]_vars

====
